---- MODULE Spec2Model ----
(***************************************************************************)
(* StrategySuite: the project store, its updaters and its persistence.     *)
(*                                                                         *)
(* The repository holds two programs over the same ProjectState type:      *)
(*   - the current application (src/unnamed/part_005, AppShell), which     *)
(*     persists through the server proxy (src/src/contexts/UserContext.tsx *)
(*     lines 43-175, src/server/index.js) with a debounced save;           *)
(*   - the legacy application (src/unnamed/part_000, App), which persists  *)
(*     to localStorage and has moveIdea, idea text editing and document    *)
(*     renaming / content editing.                                         *)
(* The variable app says which of the two programs is running.             *)
(*                                                                         *)
(* Text is a sequence of one-character strings, so that trim() and the     *)
(* " (AI)" suffix are computed.  Ids produced by Math.random() are         *)
(* naturals >= 1, assumed not to collide; 0 stands for null.               *)
(***************************************************************************)
EXTENDS Integers, Sequences, FiniteSets, TLC

VARIABLES
    app,              \* "current" (part_005) or "legacy" (part_000)
    user,             \* user?.uid, "" when no user is signed in
    projects,         \* useState<ProjectState[]>
    activeProjectId,  \* useState<string | null>, 0 is null
    activeSection,    \* useState<SectionKey>
    isLoading,        \* useState(true)
    isGenerating,     \* useState(false)
    now,              \* Date.now()
    timers,           \* the browser's pending setTimeout callbacks
    saveTimeoutRef,   \* useRef: the timer the ref designates ({} is null)
    inflight,         \* HTTP requests sent and not yet handled by the server
    remote,           \* users/{uid}/projects: project id -> document
    localStorage,     \* the legacy application's two localStorage keys
    readers,          \* FileReader reads started and not yet loaded
    pendingAi,        \* generateIdeas calls awaiting their response
    ops,              \* number of store-mutating handler runs so far
    lastOp,           \* the last store operation: its kind, project id and updater,
                      \* and the active project id when it ran
    saveLog,          \* every saveProject call made, in order
    failed,           \* whether some request has failed
    burst,            \* per edited project: its current burst of updates
    crashed,          \* a render threw: React has unmounted the tree
    load,             \* the loadProjects call of the mount effect
    inits,            \* the runs of initializeProjects that found a local cache
    newProjectName,   \* useState(""): the name typed into the new-project form
    served            \* the last response the server has sent

vars == <<app, user, projects, activeProjectId, activeSection, isLoading,
          isGenerating, now, timers, saveTimeoutRef, inflight, remote,
          localStorage, readers, pendingAi, ops, lastOp, saveLog, failed, burst,
          crashed, load, inits, newProjectName, served>>

-----------------------------------------------------------------------------
(* Bounds of the model *)

MaxOps == 2
MaxTicks == 4
MaxInits == 2

(* Program constants *)

DebounceMs == 1000
ContentCap == 5000

TickMs == DebounceMs \div 2

-----------------------------------------------------------------------------
(* Generic helpers for JavaScript arrays (0-based indices, -1 = not found) *)

Min(a, b) == IF a <= b THEN a ELSE b

Range(s) == {s[i] : i \in 1..Len(s)}

\* Array.prototype.findIndex on the id field
FindIndex(s, id) ==
    IF \E i \in 1..Len(s) : s[i].id = id
    THEN (CHOOSE i \in 1..Len(s) : s[i].id = id /\ \A j \in 1..(i-1) : s[j].id # id) - 1
    ELSE -1

\* a faulty variant of the operator below, which trims nothing; C23 is tested
\* against it
NoTrim(t) == t

\* String.prototype.trim on a text whose only whitespace character is " "
RECURSIVE TrimLeft(_)
TrimLeft(t) == IF t # <<>> /\ Head(t) = " " THEN TrimLeft(Tail(t)) ELSE t

RECURSIVE TrimRight(_)
TrimRight(t) ==
    IF t # <<>> /\ t[Len(t)] = " " THEN TrimRight(SubSeq(t, 1, Len(t) - 1)) ELSE t

Trim(t) == TrimRight(TrimLeft(t))

-----------------------------------------------------------------------------
(* types.ts and the static catalog *)

SectionKey == [PROJECT_LIST |-> "projects", OVERVIEW |-> "overview", ABOUT |-> "about",
               PESTLE |-> "pestle", PORTERS |-> "porters",
               MARKETING |-> "marketing", SWOT |-> "swot"]

FRAMEWORK_CONFIGS ==
    [pestle |-> << [id |-> "political", title |-> "Political", color |-> "#E0F2FE"],
                   [id |-> "economic", title |-> "Economic", color |-> "#FEF9C3"],
                   [id |-> "social", title |-> "Social", color |-> "#FCE7F3"],
                   [id |-> "technological", title |-> "Technological", color |-> "#DCFCE7"],
                   [id |-> "legal", title |-> "Legal", color |-> "#EDE9FE"],
                   [id |-> "environmental", title |-> "Environmental", color |-> "#FFEDD5"] >>,
     porters |-> << [id |-> "rivalry", title |-> "Competitive Rivalry", color |-> "#FEE2E2"],
                    [id |-> "suppliers", title |-> "Supplier Power", color |-> "#DBEAFE"],
                    [id |-> "buyers", title |-> "Buyer Power", color |-> "#F3E8FF"],
                    [id |-> "substitution", title |-> "Threat of Substitution", color |-> "#ECFDF5"],
                    [id |-> "new_entry", title |-> "Threat of New Entry", color |-> "#FFF7ED"] >>,
     marketing |-> << [id |-> "product", title |-> "Product", color |-> "#E0F2FE"],
                      [id |-> "price", title |-> "Price", color |-> "#FEF9C3"],
                      [id |-> "place", title |-> "Place", color |-> "#DCFCE7"],
                      [id |-> "promotion", title |-> "Promotion", color |-> "#FCE7F3"] >>,
     swot |-> << [id |-> "strengths", title |-> "Strengths", color |-> "#DCFCE7"],
                 [id |-> "weaknesses", title |-> "Weaknesses", color |-> "#FEE2E2"],
                 [id |-> "opportunities", title |-> "Opportunities", color |-> "#E0F2FE"],
                 [id |-> "threats", title |-> "Threats", color |-> "#FEF9C3"] >>]

\* a faulty variant of the constructor below, which leaves out the last
\* category of every framework; C5 is tested against it
createNewProjectShort(id, name, t) ==
    [id |-> id,
     name |-> name,
     lastUpdated |-> t,
     businessDetails |-> <<>>,
     businessFiles |-> <<>>,
     frameworks |->
        [key \in DOMAIN FRAMEWORK_CONFIGS |->
            [i \in 1..(Len(FRAMEWORK_CONFIGS[key]) - 1) |->
                [id |-> FRAMEWORK_CONFIGS[key][i].id,
                 title |-> FRAMEWORK_CONFIGS[key][i].title,
                 color |-> FRAMEWORK_CONFIGS[key][i].color,
                 ideas |-> <<>>,
                 justification |-> <<>>]]]]

\* createNewProject (part_000) and the literal in handleCreateProject (part_005)
createNewProject(id, name, t) ==
    [id |-> id,
     name |-> name,
     lastUpdated |-> t,
     businessDetails |-> <<>>,
     businessFiles |-> <<>>,
     frameworks |->
        [key \in DOMAIN FRAMEWORK_CONFIGS |->
            [i \in 1..Len(FRAMEWORK_CONFIGS[key]) |->
                [id |-> FRAMEWORK_CONFIGS[key][i].id,
                 title |-> FRAMEWORK_CONFIGS[key][i].title,
                 color |-> FRAMEWORK_CONFIGS[key][i].color,
                 ideas |-> <<>>,
                 justification |-> <<>>]]]]

-----------------------------------------------------------------------------
(* The updaters handed to updateActiveProject.  An updater is a record     *)
(* [kind, ...arguments]; Apply(u, prev) is the project the updater returns. *)

\* fws[sectionKey] || []  (part_005) 
ItemsOf(prev, sectionKey) ==
    IF sectionKey \in DOMAIN prev.frameworks THEN prev.frameworks[sectionKey] ELSE <<>>

\* e.target.value of the business description textarea
SetBusinessDetails(prev, value) == [prev EXCEPT !.businessDetails = value]

\* String.prototype.substring(0, n) of a document text; a document text is
\* [src, len]: the first len characters of the text named src
Substring0(content, n) == [content EXCEPT !.len = Min(content.len, n)]

\* reader.onload in handleFileUpload
AppendFile(prev, fileId, name, content) ==
    [prev EXCEPT !.businessFiles =
        Append(@, [id |-> fileId, name |-> name, content |-> Substring0(content, ContentCap)])]

RemoveFile(prev, fileId) ==
    [prev EXCEPT !.businessFiles = SelectSeq(@, LAMBDA f : f.id # fileId)]

\* legacy About: the document name input and the document content textarea
RenameFile(prev, fileId, name) ==
    [prev EXCEPT !.businessFiles =
        [i \in 1..Len(@) |-> IF @[i].id = fileId THEN [@[i] EXCEPT !.name = name] ELSE @[i]]]

EditFileContent(prev, fileId, content) ==
    [prev EXCEPT !.businessFiles =
        [i \in 1..Len(@) |-> IF @[i].id = fileId THEN [@[i] EXCEPT !.content = content] ELSE @[i]]]

\* handleAddIdea's updater
AddIdea(prev, sectionKey, itemId, text, newId) ==
    LET list == ItemsOf(prev, sectionKey)
        idx == FindIndex(list, itemId)
    IN  IF idx = -1 THEN prev
        ELSE [prev EXCEPT !.frameworks[sectionKey][idx + 1].ideas =
                Append(@, [id |-> newId, text |-> text, isAiGenerated |-> FALSE,
                           isSelected |-> TRUE, order |-> Len(list[idx + 1].ideas)])]

\* a faulty variant of the updater below, which flips every idea of the
\* category; C25 is tested against it
ToggleCategory(prev, sectionKey, itemId, ideaId) ==
    LET list == ItemsOf(prev, sectionKey)
        idx == FindIndex(list, itemId)
    IN  IF idx = -1 THEN prev
        ELSE [prev EXCEPT !.frameworks[sectionKey][idx + 1].ideas =
                [i \in 1..Len(@) |-> [@[i] EXCEPT !.isSelected = ~@]]]

\* toggleIdea's updater
ToggleIdea(prev, sectionKey, itemId, ideaId) ==
    LET list == ItemsOf(prev, sectionKey)
        idx == FindIndex(list, itemId)
    IN  IF idx = -1 THEN prev
        ELSE [prev EXCEPT !.frameworks[sectionKey][idx + 1].ideas =
                [i \in 1..Len(@) |->
                    IF @[i].id = ideaId THEN [@[i] EXCEPT !.isSelected = ~@] ELSE @[i]]]

\* a faulty variant of the updater below, which drops the whole category;
\* C7 is tested against it
DeleteIdeaAndCategory(prev, sectionKey, itemId, ideaId) ==
    [prev EXCEPT !.frameworks[sectionKey] = SelectSeq(@, LAMBDA it : it.id # itemId)]

\* deleteIdea's updater
DeleteIdea(prev, sectionKey, itemId, ideaId) ==
    LET list == ItemsOf(prev, sectionKey)
        idx == FindIndex(list, itemId)
    IN  IF idx = -1 THEN prev
        ELSE [prev EXCEPT !.frameworks[sectionKey][idx + 1].ideas =
                SelectSeq(@, LAMBDA i : i.id # ideaId)]

\* the justification textarea's updater
SetJustification(prev, sectionKey, itemId, val) ==
    LET list == ItemsOf(prev, sectionKey)
        idx == FindIndex(list, itemId)
    IN  IF idx = -1 THEN prev
        ELSE [prev EXCEPT !.frameworks[sectionKey][idx + 1].justification = val]

\* legacy: the text input of a human-authored idea
SetIdeaText(prev, sectionKey, itemId, ideaId, text) ==
    LET idx == FindIndex(prev.frameworks[sectionKey], itemId)
    IN  [prev EXCEPT !.frameworks[sectionKey][idx + 1].ideas =
            [i \in 1..Len(@) |-> IF @[i].id = ideaId THEN [@[i] EXCEPT !.text = text] ELSE @[i]]]

\* `${text} (AI)`
AiSuffix == <<" ", "(", "A", "I", ")">>

\* a faulty variant of the updater below, which numbers the new ideas from 0
\* whatever the category already holds; C12 is tested against it
MergeSuggestionsFromZero(prev, frameworkKey, itemId, suggestions, newIds) ==
    LET items == prev.frameworks[frameworkKey]
        idx == FindIndex(items, itemId)
        old == items[idx + 1].ideas
        newIdeas == [i \in 1..Len(suggestions) |->
                        [id |-> newIds[i],
                         text |-> suggestions[i] \o AiSuffix,
                         isAiGenerated |-> TRUE,
                         isSelected |-> FALSE,
                         order |-> i - 1]]
    IN  [prev EXCEPT !.frameworks[frameworkKey][idx + 1].ideas = old \o newIdeas]

\* generateIdeas' merge updater; newIds are the Math.random() ids, one per suggestion
MergeSuggestions(prev, frameworkKey, itemId, suggestions, newIds) ==
    LET items == prev.frameworks[frameworkKey]
        idx == FindIndex(items, itemId)
        old == items[idx + 1].ideas
        newIdeas == [i \in 1..Len(suggestions) |->
                        [id |-> newIds[i],
                         text |-> suggestions[i] \o AiSuffix,
                         isAiGenerated |-> TRUE,
                         isSelected |-> FALSE,
                         order |-> Len(old) + (i - 1)]]
    IN  [prev EXCEPT !.frameworks[frameworkKey][idx + 1].ideas = old \o newIdeas]

\* what reading an array slot that holds nothing yields
Undefined == [id |-> 0, text |-> <<>>, isAiGenerated |-> FALSE, isSelected |-> FALSE, order |-> 0]

\* ideas[k] for a 0-based k
IdeaAt(ideas, k) == IF 0 <= k /\ k < Len(ideas) THEN ideas[k + 1] ELSE Undefined

\* a faulty variant of the updater below, without the range check on the
\* target index; C10 is tested against it
moveIdeaUnchecked(prev, frameworkKey, itemId, ideaId, direction) ==
    LET items == prev.frameworks[frameworkKey]
        itemIdx == FindIndex(items, itemId)
        ideas == items[itemIdx + 1].ideas
        ideaIdx == FindIndex(ideas, ideaId)
        targetIdx == IF direction = "up" THEN ideaIdx - 1 ELSE ideaIdx + 1
    IN  [prev EXCEPT !.frameworks[frameworkKey][itemIdx + 1].ideas =
            [i \in 1..Len(ideas) |->
                IF i - 1 = ideaIdx THEN IdeaAt(ideas, targetIdx)
                ELSE IF i - 1 = targetIdx THEN IdeaAt(ideas, ideaIdx)
                ELSE ideas[i]]]

\* legacy moveIdea's updater
moveIdea(prev, frameworkKey, itemId, ideaId, direction) ==
    LET items == prev.frameworks[frameworkKey]
        itemIdx == FindIndex(items, itemId)
        ideas == items[itemIdx + 1].ideas
        ideaIdx == FindIndex(ideas, ideaId)
        targetIdx == IF direction = "up" THEN ideaIdx - 1 ELSE ideaIdx + 1
        swapped == [i \in 1..Len(ideas) |->
                       IF i - 1 = ideaIdx THEN IdeaAt(ideas, targetIdx)
                       ELSE IF i - 1 = targetIdx THEN IdeaAt(ideas, ideaIdx)
                       ELSE ideas[i]]
    IN  [prev EXCEPT !.frameworks[frameworkKey][itemIdx + 1].ideas =
            IF targetIdx >= 0 /\ targetIdx < Len(ideas) THEN swapped ELSE ideas]

\* an updater that writes lastUpdated itself (updateActiveProject takes any updater)
WriteStamp(prev, t) == [prev EXCEPT !.lastUpdated = t]

Apply(u, prev) ==
    CASE u.kind = "businessDetails" -> SetBusinessDetails(prev, u.value)
      [] u.kind = "appendFile" -> AppendFile(prev, u.fileId, u.name, u.content)
      [] u.kind = "removeFile" -> RemoveFile(prev, u.fileId)
      [] u.kind = "renameFile" -> RenameFile(prev, u.fileId, u.name)
      [] u.kind = "editFileContent" -> EditFileContent(prev, u.fileId, u.content)
      [] u.kind = "addIdea" -> AddIdea(prev, u.sectionKey, u.itemId, u.text, u.newId)
      [] u.kind = "toggleIdea" -> ToggleIdea(prev, u.sectionKey, u.itemId, u.ideaId)
      [] u.kind = "deleteIdea" -> DeleteIdea(prev, u.sectionKey, u.itemId, u.ideaId)
      [] u.kind = "justification" -> SetJustification(prev, u.sectionKey, u.itemId, u.val)
      [] u.kind = "ideaText" -> SetIdeaText(prev, u.sectionKey, u.itemId, u.ideaId, u.text)
      [] u.kind = "merge" -> MergeSuggestions(prev, u.sectionKey, u.itemId, u.suggestions, u.newIds)
      [] u.kind = "moveIdea" -> moveIdea(prev, u.sectionKey, u.itemId, u.ideaId, u.direction)
      [] u.kind = "writeStamp" -> WriteStamp(prev, u.value)

-----------------------------------------------------------------------------
(* The store: updateActiveProject, handleCreateProject, handleDeleteProject *)

\* a faulty variant of the map below, which maps every project of the list;
\* C8 is tested against it
MapProjectsAll(ps, aid, u, t) ==
    [i \in 1..Len(ps) |-> [Apply(u, ps[i]) EXCEPT !.lastUpdated = t]]

\* a faulty variant of the map below, which keeps whatever lastUpdated the
\* updater returned; C1 is tested against it
MapProjectsUnstamped(ps, aid, u, t) ==
    [i \in 1..Len(ps) |-> IF ps[i].id = aid THEN Apply(u, ps[i]) ELSE ps[i]]

\* setProjects(prev => prev.map(p => p.id === activeProjectId
\*     ? { ...updater(p), lastUpdated: Date.now() } : p))
MapProjects(ps, aid, u, t) ==
    [i \in 1..Len(ps) |->
        IF ps[i].id = aid THEN [Apply(u, ps[i]) EXCEPT !.lastUpdated = t] ELSE ps[i]]

\* a faulty variant of the operator below, which appends; C6 is tested against it
AppendLast(ps, p) == ps \o <<p>>

\* setProjects([newProject, ...projects])
Prepend(ps, p) == <<p>> \o ps

\* setProjects(projects.filter(p => p.id !== id))
RemoveProject(ps, id) == SelectSeq(ps, LAMBDA p : p.id # id)

\* a faulty variant of the operator below, which always clears the selection;
\* C9 is tested against it
ActiveAlwaysCleared(active, id) == 0

\* if (activeProjectId === id) setActiveProjectId(null)
ActiveAfterDelete(active, id) == IF active = id THEN 0 ELSE active

\* if (activeProjectId === id) setActiveSection(SectionKey.PROJECT_LIST)
SectionAfterDelete(active, section, id) ==
    IF active = id THEN SectionKey.PROJECT_LIST ELSE section

ProjectIds(ps) == {ps[i].id : i \in 1..Len(ps)}

\* projects.find(p => p.id === id), for an id in the list
ProjectOf(ps, id) == ps[FindIndex(ps, id) + 1]

-----------------------------------------------------------------------------
(* The debounced save: saveTimeoutRef, setTimeout, clearTimeout *)

\* setTimeout(() => saveProject(user.uid, project), 1000) called at time t
NewTimer(project, t) == [project |-> project, due |-> t + DebounceMs]

\* a faulty variant of the operator below, without the clearTimeout; C2 is
\* tested against it
DebouncedTimersKeeping(ts, ref, uid, project, t) ==
    IF uid = "" THEN ts ELSE ts \cup {NewTimer(project, t)}

\* the browser's timers after saveProjectDebounced(project) at time t
DebouncedTimers(ts, ref, uid, project, t) ==
    IF uid = "" THEN ts ELSE (ts \ ref) \cup {NewTimer(project, t)}

\* a faulty variant of the operator below, which sets the timer without keeping
\* it in the ref; C13 is tested against it
DebouncedRefUnset(ref, uid, project, t) == ref

\* saveTimeoutRef.current after saveProjectDebounced(project) at time t
DebouncedRef(ref, uid, project, t) ==
    IF uid = "" THEN ref ELSE {NewTimer(project, t)}

-----------------------------------------------------------------------------
(* The server proxy and Firestore *)

\* fetch(`/api/v1/projects/${userId}`, { method: 'POST', body: JSON.stringify(project) })
SaveRequest(project) == [kind |-> "save", id |-> project.id, project |-> project]

\* fetch(`/api/v1/projects/${userId}/${projectId}`, { method: 'DELETE' })
DeleteRequest(id) == [kind |-> "delete", id |-> id, project |-> <<>>]

\* a faulty variant of the operator below, which adds the elements of an array
\* to the stored array instead of replacing it; C19 is tested against it
MergeMapAppending(old, new) ==
    [k \in (DOMAIN old) \cup (DOMAIN new) |->
        IF k \in DOMAIN new
        THEN IF k \in DOMAIN old THEN old[k] \o new[k] ELSE new[k]
        ELSE old[k]]

\* Firestore set(data, { merge: true }) on a map-valued field: keys of data
\* overwrite, other keys stay; arrays are replaced whole
MergeMap(old, new) ==
    [k \in (DOMAIN old) \cup (DOMAIN new) |-> IF k \in DOMAIN new THEN new[k] ELSE old[k]]

\* a faulty variant of the operator below, in which the fields already stored
\* win over those sent; C20 is tested against it
MergeDocKeepingOld(old, new) ==
    [f \in (DOMAIN old) \cup (DOMAIN new) |-> IF f \in DOMAIN old THEN old[f] ELSE new[f]]

\* projectRef.set(project, { merge: true }) on an existing document
MergeDoc(old, new) ==
    [f \in (DOMAIN old) \cup (DOMAIN new) |->
        IF f \in DOMAIN new
        THEN IF f = "frameworks" /\ f \in DOMAIN old THEN MergeMap(old[f], new[f]) ELSE new[f]
        ELSE old[f]]

\* the projects collection after POST /api/v1/projects/:userId with this body
RemoteAfterSave(r, project) ==
    [i \in (DOMAIN r) \cup {project.id} |->
        IF i = project.id
        THEN IF i \in DOMAIN r THEN MergeDoc(r[i], project) ELSE project
        ELSE r[i]]

\* req.body.field is a non-empty string
Has(body, field) == field \in DOMAIN body /\ body[field] # <<>>

\* project && project.id: the id is there and is not the empty one
HasId(body) == "id" \in DOMAIN body /\ body.id # 0

\* a faulty variant of the handler below, without the check of the body: the
\* user document is written, then doc(undefined) throws; C24 is tested against it
PostProjectUnchecked(r, body) ==
    IF HasId(body)
    THEN [status |-> 200, json |-> {"success", "metadata"}, wroteUser |-> TRUE,
          calledModel |-> FALSE, remote |-> RemoteAfterSave(r, body)]
    ELSE [status |-> 500, json |-> {"error", "message"}, wroteUser |-> TRUE,
          calledModel |-> FALSE, remote |-> r]

\* POST /api/v1/projects/:userId answered without a Firestore error: the
\* status, the keys of the JSON body, whether users/{uid} was written, and the
\* projects collection afterwards
PostProject(r, body) ==
    IF ~HasId(body)
    THEN [status |-> 400, json |-> {"error"}, wroteUser |-> FALSE,
          calledModel |-> FALSE, remote |-> r]
    ELSE [status |-> 200, json |-> {"success", "metadata"}, wroteUser |-> TRUE,
          calledModel |-> FALSE, remote |-> RemoteAfterSave(r, body)]

\* POST /api/v1/generate-ideas: configured is `genAI` being set, text is what
\* the model answers if it is called
PostGenerateIdeas(configured, body, text) ==
    IF ~configured
    THEN [status |-> 503, json |-> {"error", "message"}, wroteUser |-> FALSE,
          calledModel |-> FALSE]
    ELSE IF ~Has(body, "frameworkKey") \/ ~Has(body, "itemTitle")
    THEN [status |-> 400, json |-> {"error", "message"}, wroteUser |-> FALSE,
          calledModel |-> FALSE]
    ELSE IF text.json = "invalid"
    THEN [status |-> 500, json |-> {"error", "message"}, wroteUser |-> FALSE,
          calledModel |-> TRUE]
    ELSE [status |-> 200, json |-> {"ideas"}, wroteUser |-> FALSE, calledModel |-> TRUE]

\* the projects collection after DELETE /api/v1/projects/:userId/:projectId
RemoteAfterDelete(r, id) == [i \in (DOMAIN r) \ {id} |-> r[i]]

\* projects.sort((a, b) => (b.lastUpdated || 0) - (a.lastUpdated || 0)) over the
\* documents of the collection, which Firestore returns ordered by document id
RECURSIVE InsertDesc(_, _)
InsertDesc(sorted, p) ==
    IF sorted = <<>> THEN <<p>>
    ELSE IF Head(sorted).lastUpdated >= p.lastUpdated
         THEN <<Head(sorted)>> \o InsertDesc(Tail(sorted), p)
         ELSE <<p>> \o sorted

RECURSIVE DocsById(_, _)
DocsById(r, ids) ==
    IF ids = {} THEN <<>>
    ELSE LET m == CHOOSE i \in ids : \A j \in ids : i <= j
         IN  <<r[m]>> \o DocsById(r, ids \ {m})

RECURSIVE SortDesc(_)
SortDesc(docs) ==
    IF docs = <<>> THEN <<>>
    ELSE InsertDesc(SortDesc(SubSeq(docs, 1, Len(docs) - 1)), docs[Len(docs)])

\* GET /api/v1/projects/:userId
LoadProjects(r) == SortDesc(DocsById(r, DOMAIN r))

\* the two storage services the application can be built against: the one that
\* calls the Express proxy and the one that calls Firestore itself
Gateways == {"proxy", "direct"}

\* setTimeout(() => reject(...), 10000) raced against getDocs
LoadTimeoutMs == 10000

\* what the remote fetch of loadProjects comes to; a fetch that has not come to
\* anything is a load that stays pending
LoadOutcomes(gateway) ==
    IF gateway = "direct" THEN {"ok", "unconfigured", "error"}
    ELSE {"ok", "unreachable", "error"}

\* a settled promise
Resolved(v) == [rejected |-> FALSE, value |-> v]
Rejected == [rejected |-> TRUE, value |-> <<>>]

\* a faulty variant of the operator below, which logs the error and resolves;
\* C21 is tested against it
requestSwallowing(outcome) == Resolved(<<>>)

\* saveProject / deleteProject of the storage service once the fetch has settled:
\* `catch (error) { console.error(...); throw error; }`
request(outcome) == IF outcome = "ok" THEN Resolved(<<>>) ELSE Rejected

\* loadProjects without its catch block; C17 is tested against it
loadProjectsRethrowing(outcome, r) ==
    IF outcome = "ok" THEN Resolved(LoadProjects(r)) ELSE Rejected

\* loadProjects of either service: the sorted documents, or [] from
\* `if (!db) return []` and from the catch block
loadProjects(outcome, r) ==
    IF outcome = "ok" THEN Resolved(LoadProjects(r)) ELSE Resolved(<<>>)

\* initializeProjects: setProjects(firestoreProjects), or the catch block
ProjectsAfterLoad(ps, result) == IF result.rejected THEN ps ELSE result.value

-----------------------------------------------------------------------------
(* Inputs and initial contents *)

StartMs == 2 * DebounceMs
EndMs == StartMs + MaxTicks * TickMs

Names == { <<" ", "N", " ">>, <<" ">> }
DetailTexts == { <<"d">>, <<"e">> }
IdeaTexts == { <<"x">>, <<" ">> }
JustificationTexts == { <<"j">> }
FileTexts == { [src |-> "f", len |-> 7000] }

\* what the language model answers to the prompt, as JSON.parse reads it: an
\* array of strings of some length, a value that is no array, or no JSON at all
ModelTexts ==
    { [json |-> "array", items |-> << <<"s">>, <<"t">>, <<"r">> >>],
      [json |-> "array", items |-> << <<"s">> >>],
      [json |-> "array", items |-> <<>>],
      [json |-> "object", items |-> <<>>],
      [json |-> "invalid", items |-> <<>>] }

\* the 2xx bodies of POST /api/v1/generate-ideas: res.json({ ideas }) with
\* ideas = JSON.parse(text); a text that does not parse is answered with a 500
Responses == { [ideas |-> t] : t \in {m \in ModelTexts : m.json # "invalid"} }

\* Array.prototype.map exists on the value
IsArray(v) == v.json = "array"

\* the framework sections visited, and in each the category acted on
Targets == [pestle |-> "political"]

\* a project of an earlier session: three ideas under pestle/political, the
\* second one an unselected AI suggestion
SeedA ==
    LET p0 == createNewProject(1, <<"A">>, 0)
        p1 == AddIdea(p0, "pestle", "political", <<"a">>, 1)
        p2 == MergeSuggestions(p1, "pestle", "political", << <<"b">> >>, <<2>>)
        p3 == AddIdea(p2, "pestle", "political", <<"c">>, 3)
    IN  [p3 EXCEPT !.lastUpdated = TickMs]

\* a project of an earlier session with no content
SeedB == createNewProject(2, <<"B">>, DebounceMs)

EmptyRemote == [i \in {} |-> <<>>]
SeededRemote == [i \in {1, 2} |-> IF i = 1 THEN SeedA ELSE SeedB]

\* documents with the id of SeedA left by another writer: one with a field no
\* ProjectState has, one with a framework no catalog has
SeedAWithField == MergeDoc([archived |-> TRUE], SeedA)
SeedAWithFramework == MergeDoc([frameworks |-> [vrio |-> <<>>]], SeedA)

\* the collections a save can meet
PriorRemotes ==
    { EmptyRemote, SeededRemote,
      [i \in {1} |-> SeedAWithField],
      [i \in {1, 2} |-> IF i = 1 THEN SeedAWithFramework ELSE SeedB] }

\* the projects handed to save
SavedProjects ==
    { SeedA, SeedB,
      WriteStamp(SetBusinessDetails(SeedA, <<"d">>), StartMs),
      createNewProject(3, <<"N">>, StartMs) }

\* the projects of the local cache of an earlier version of the application
SeedC == createNewProject(3, <<"C">>, 0)
SeedD == createNewProject(4, <<"D">>, TickMs)
CachedProjects == <<SeedC, SeedD>>

\* bodies of POST /api/v1/projects/:userId: projects, a project without its id,
\* a project whose id is empty, and {}
ProjectBodies ==
    SavedProjects
        \cup { [f \in (DOMAIN SeedB) \ {"id"} |-> SeedB[f]],
               [SeedB EXCEPT !.id = 0],
               [f \in {} |-> <<>>] }

\* bodies of POST /api/v1/generate-ideas
IdeaBodies ==
    { [frameworkKey |-> <<"p">>, itemTitle |-> <<"P">>, businessContext |-> <<"c">>],
      [frameworkKey |-> <<"p">>, businessContext |-> <<"c">>],
      [itemTitle |-> <<"P">>],
      [frameworkKey |-> <<>>, itemTitle |-> <<"P">>],
      [f \in {} |-> <<>>] }

NoResponse == [route |-> "none", body |-> <<>>, status |-> 0, json |-> {}, wroteUser |-> FALSE,
               calledModel |-> FALSE]

NoUpdater == [kind |-> "none"]
NoLastOp == [kind |-> "none", id |-> 0, u |-> NoUpdater, active |-> 0]
NoBurst == [i \in {} |-> <<>>]

NoLoad == [phase |-> "idle", gateway |-> "none", since |-> 0, outcome |-> "none",
           result |-> Resolved(<<>>)]

NoCache == [allProjects |-> <<>>, activeId |-> 0, v1 |-> <<>>]

\* localStorage as the legacy application's effects leave it
Persisted(ls, ps, active) == [ls EXCEPT !.allProjects = ps, !.activeId = active]

InitCurrent ==
    /\ app = "current"
    /\ user \in {"", "u1"}
    /\ remote \in (IF user = "" THEN {EmptyRemote} ELSE {EmptyRemote, SeededRemote})
    /\ projects = <<>>
    /\ activeProjectId = 0
    /\ activeSection = SectionKey.PROJECT_LIST
    /\ isLoading = TRUE
    /\ localStorage = NoCache

InitLegacy ==
    /\ app = "legacy"
    /\ user = ""
    /\ remote = EmptyRemote
    /\ localStorage \in { NoCache,
                          Persisted(NoCache, <<SeedB, SeedA>>, 0),
                          Persisted(NoCache, <<SeedB, SeedA>>, 1) }
    /\ projects = localStorage.allProjects
    /\ activeProjectId = localStorage.activeId
    /\ activeSection = (IF localStorage.activeId # 0 THEN SectionKey.OVERVIEW
                        ELSE SectionKey.PROJECT_LIST)
    /\ isLoading = FALSE

Init ==
    /\ (InitCurrent \/ InitLegacy)
    /\ isGenerating = FALSE
    /\ now = StartMs
    /\ timers = {}
    /\ saveTimeoutRef = {}
    /\ inflight = {}
    /\ readers = {}
    /\ pendingAi = {}
    /\ ops = 0
    /\ lastOp = NoLastOp
    /\ saveLog = <<>>
    /\ failed = FALSE
    /\ burst = NoBurst
    /\ crashed = FALSE
    /\ load = NoLoad
    /\ inits = {}
    /\ newProjectName = <<>>
    /\ served = NoResponse

-----------------------------------------------------------------------------
(* Fresh ids (Math.random().toString(36)) *)

UsedProjectIds ==
    ProjectIds(projects) \cup (DOMAIN remote) \cup (DOMAIN burst)
        \cup {t.project.id : t \in timers} \cup {r.id : r \in inflight}
        \cup {saveLog[i].id : i \in 1..Len(saveLog)}
        \cup {r.aid : r \in readers} \cup {r.aid : r \in pendingAi}
        \cup {localStorage.v1[i].id : i \in 1..Len(localStorage.v1)}
        \cup UNION {{r.cached[i].id : i \in 1..Len(r.cached)} : r \in inits}

FreshProjectId == CHOOSE n \in 1..(Cardinality(UsedProjectIds) + 1) : n \notin UsedProjectIds

IdeaIdsOf(p) ==
    UNION { UNION { {p.frameworks[k][i].ideas[j].id : j \in 1..Len(p.frameworks[k][i].ideas)}
                    : i \in 1..Len(p.frameworks[k]) } : k \in DOMAIN p.frameworks }

UsedIdeaIds == UNION {IdeaIdsOf(projects[i]) : i \in 1..Len(projects)}

\* the n smallest idea ids not in use, in increasing order
RECURSIVE FreshIds(_, _)
FreshIds(used, n) ==
    IF n = 0 THEN <<>>
    ELSE LET m == CHOOSE k \in 1..(Cardinality(used) + 1) : k \notin used
         IN  <<m>> \o FreshIds(used \cup {m}, n - 1)

UsedFileIds ==
    UNION { {projects[i].businessFiles[j].id : j \in 1..Len(projects[i].businessFiles)}
            : i \in 1..Len(projects) }

FreshFileId == FreshIds(UsedFileIds, 1)[1]

-----------------------------------------------------------------------------
(* Bookkeeping of the bursts of updates (history, not program state) *)

\* burst[id]: base = Len(saveLog) when the burst began, last = time of its last
\* update, state = the project after that update, edits = number of updates,
\* disturbed = another project was updated after the last update of this one
BurstAfterUpdate(b, id, p, t, baseLen) ==
    [j \in (DOMAIN b) \cup {id} |->
        IF j = id
        THEN IF id \in DOMAIN b /\ t < b[id].last + DebounceMs
             THEN [b[id] EXCEPT !.last = t, !.state = p, !.disturbed = FALSE, !.edits = @ + 1]
             ELSE [base |-> baseLen, last |-> t, state |-> p, disturbed |-> FALSE, edits |-> 1]
        ELSE [b[j] EXCEPT !.disturbed = TRUE]]

-----------------------------------------------------------------------------
(* Actions *)

\* the user interacts until MaxOps operations on the store have run
Ready == ~isLoading /\ ~crashed /\ ops < MaxOps

\* the sidebar, the overview cards and the header of either application
CanEdit == Ready /\ activeProjectId \in ProjectIds(projects)
                 /\ activeSection # SectionKey.PROJECT_LIST

\* the project list is on screen
ListShown ==
    /\ Ready
    /\ \/ activeSection = SectionKey.PROJECT_LIST
       \/ app = "legacy" /\ activeProjectId \notin ProjectIds(projects)

\* useEffect(() => localStorage.setItem(...), [projects]) and [activeProjectId]
LegacyEffects ==
    localStorage' = (IF app = "legacy" THEN Persisted(localStorage, projects', activeProjectId')
                     ELSE localStorage)

\* updateActiveProject(updater) as bound in a render whose activeProjectId is aid
updateActiveProject(aid, u) ==
    /\ ops < MaxOps
    /\ projects' = (IF aid = 0 THEN projects ELSE MapProjects(projects, aid, u, now))
    /\ IF app = "current" /\ aid \in ProjectIds(projects)
       THEN LET updatedProject == ProjectOf(projects', aid)
            IN  /\ timers' = DebouncedTimers(timers, saveTimeoutRef, user, updatedProject, now)
                /\ saveTimeoutRef' = DebouncedRef(saveTimeoutRef, user, updatedProject, now)
       ELSE UNCHANGED <<timers, saveTimeoutRef>>
    /\ burst' = (IF aid \in ProjectIds(projects)
                 THEN BurstAfterUpdate(burst, aid, ProjectOf(projects', aid), now, Len(saveLog))
                 ELSE burst)
    /\ ops' = ops + 1
    /\ lastOp' = [kind |-> "update", id |-> aid, u |-> u, active |-> activeProjectId]
    /\ UNCHANGED <<app, user, activeProjectId, activeSection, isLoading, now,
                   inflight, remote, saveLog, failed, crashed, inits, served, newProjectName, load>>
    /\ LegacyEffects

\* a synchronous edit: the handler runs in the current render
Edit(u) ==
    /\ CanEdit
    /\ updateActiveProject(activeProjectId, u)
    /\ UNCHANGED <<isGenerating, readers, pendingAi>>

\* the mount effect of AppShell when the fetch is answered with the documents at
\* once: initializeProjects (the local cache of the migration is absent here, so
\* migrateFromLocalStorage returns [])
InitializeProjects ==
    /\ app = "current"
    /\ isLoading
    /\ load.phase = "idle"
    /\ user = "" \/ localStorage.v1 = <<>>
    /\ projects' = (IF user = "" THEN projects
                   ELSE ProjectsAfterLoad(projects, loadProjects("ok", remote)))
    /\ isLoading' = FALSE
    /\ UNCHANGED <<app, user, activeProjectId, activeSection, isGenerating, now, timers,
                   saveTimeoutRef, inflight, remote, localStorage, readers, pendingAi,
                   ops, lastOp, saveLog, failed, crashed, inits, served, newProjectName, load, burst>>

\* the mount effect of AppShell up to `await loadProjects(user.uid)`
StartLoad ==
    /\ app = "current"
    /\ isLoading
    /\ user # ""
    /\ localStorage.v1 = <<>>
    /\ load.phase = "idle"
    /\ \E gateway \in Gateways :
          load' = [load EXCEPT !.phase = "pending", !.gateway = gateway, !.since = now]
    /\ UNCHANGED <<app, user, projects, activeProjectId, activeSection, isLoading,
                   isGenerating, now, timers, saveTimeoutRef, inflight, remote, localStorage,
                   readers, pendingAi, ops, lastOp, saveLog, failed, crashed, inits, served, newProjectName, burst>>

\* loadProjects settles and initializeProjects runs to its end: setProjects with
\* what it resolved to (or the catch block), then finally
SettleLoad(outcome) ==
    /\ load' = [load EXCEPT !.phase = "settled", !.outcome = outcome,
                            !.result = loadProjects(outcome, remote)]
    /\ projects' = ProjectsAfterLoad(projects, load'.result)
    /\ isLoading' = FALSE
    /\ UNCHANGED <<app, user, activeProjectId, activeSection, isGenerating, now, timers,
                   saveTimeoutRef, inflight, remote, localStorage, readers, pendingAi,
                   ops, lastOp, saveLog, failed, crashed, inits, served, newProjectName, burst>>

\* the remote fetch comes to something; with the service that calls Firestore
\* itself, before the timer of the race has fired
LoadSettles ==
    /\ load.phase = "pending"
    /\ load.gateway = "direct" => now < load.since + LoadTimeoutMs
    /\ \E outcome \in LoadOutcomes(load.gateway) : SettleLoad(outcome)

\* time passes, up to LoadTimeoutMs after the call, while the fetch is pending
LoadWait ==
    /\ load.phase = "pending"
    /\ now < load.since + LoadTimeoutMs
    /\ now' = load.since + LoadTimeoutMs
    /\ UNCHANGED <<app, user, projects, activeProjectId, activeSection, isLoading, isGenerating,
                   timers, saveTimeoutRef, inflight, remote, localStorage, readers, pendingAi,
                   ops, lastOp, saveLog, failed, crashed, inits, served, newProjectName, load, burst>>

\* the timer of Promise.race([getDocs(projectsRef), timeoutPromise]) fires: the
\* race rejects and the catch block returns []
LoadTimesOut ==
    /\ load.phase = "pending"
    /\ load.gateway = "direct"
    /\ now >= load.since + LoadTimeoutMs
    /\ SettleLoad("timeout")

\* the mount effect of AppShell for a signed-in user whose browser holds a
\* non-empty local cache, up to the first await of migrateFromLocalStorage. The
\* effect runs on a fresh page: at the first mount, at the second mount that
\* React.StrictMode makes while the first run is still going, or after a reload
StartMigration ==
    /\ app = "current"
    /\ user # ""
    /\ localStorage.v1 # <<>>
    /\ Cardinality(inits) < MaxInits
    /\ ops = 0
    /\ timers = {}
    /\ inits' = inits \cup {[run |-> Cardinality(inits) + 1, phase |-> "saving",
                              todo |-> localStorage.v1, cached |-> localStorage.v1]}
    /\ projects' = <<>>
    /\ activeProjectId' = 0
    /\ activeSection' = SectionKey.PROJECT_LIST
    /\ isLoading' = TRUE
    /\ UNCHANGED <<app, user, isGenerating, now, timers, saveTimeoutRef, inflight, remote,
                   localStorage, readers, pendingAi, ops, lastOp, saveLog, failed, crashed,
                   load, burst, newProjectName, served>>

\* saveAllProjects: `await saveProject(userId, project)` for the next project of
\* the cache, answered with a 2xx
MigrationSave ==
    \E i \in inits :
        /\ i.phase = "saving"
        /\ i.todo # <<>>
        /\ remote' = RemoteAfterSave(remote, Head(i.todo))
        /\ saveLog' = Append(saveLog, [id |-> Head(i.todo).id, project |-> Head(i.todo),
                                       via |-> "migration"])
        /\ inits' = (inits \ {i}) \cup {[i EXCEPT !.todo = Tail(i.todo)]}
        /\ UNCHANGED <<app, user, projects, activeProjectId, activeSection, isLoading,
                       isGenerating, now, timers, saveTimeoutRef, inflight, localStorage,
                       readers, pendingAi, ops, lastOp, failed, crashed, load, burst, newProjectName, served>>

\* the same save fails: saveProject rethrows, the catch block of
\* migrateFromLocalStorage returns [] with the cache left in place, and
\* initializeProjects goes on to loadProjects, setProjects and finally
MigrationSaveFails ==
    \E i \in inits :
        /\ i.phase = "saving"
        /\ i.todo # <<>>
        /\ saveLog' = Append(saveLog, [id |-> Head(i.todo).id, project |-> Head(i.todo),
                                       via |-> "migration"])
        /\ failed' = (failed \/ request("error").rejected)
        /\ inits' = (inits \ {i}) \cup {[i EXCEPT !.phase = "done"]}
        /\ load' = [load EXCEPT !.phase = "settled", !.gateway = "proxy", !.since = now,
                                !.outcome = "ok", !.result = loadProjects("ok", remote)]
        /\ projects' = ProjectsAfterLoad(projects, load'.result)
        /\ isLoading' = FALSE
        /\ UNCHANGED <<app, user, activeProjectId, activeSection, isGenerating, now, timers,
                       saveTimeoutRef, inflight, remote, localStorage, readers, pendingAi,
                       ops, lastOp, crashed, burst, newProjectName, served>>

\* every save of the cache has been answered: localStorage.removeItem, the
\* projects of the cache are returned, and initializeProjects calls
\* setProjects(migratedProjects) and, in finally, setIsLoading(false)
MigrationDone ==
    \E i \in inits :
        /\ i.phase = "saving"
        /\ i.todo = <<>>
        /\ localStorage' = [localStorage EXCEPT !.v1 = <<>>]
        /\ inits' = (inits \ {i}) \cup {[i EXCEPT !.phase = "done"]}
        /\ load' = [load EXCEPT !.phase = "settled", !.gateway = "proxy", !.since = now,
                                !.outcome = "migrated", !.result = Resolved(i.cached)]
        /\ projects' = i.cached
        /\ isLoading' = FALSE
        /\ UNCHANGED <<app, user, activeProjectId, activeSection, isGenerating, now, timers,
                       saveTimeoutRef, inflight, remote, readers, pendingAi, ops, lastOp,
                       saveLog, failed, crashed, burst, newProjectName, served>>

handleProjectSelect(id) ==
    /\ ListShown
    /\ id \in ProjectIds(projects)
    /\ activeProjectId' = id
    /\ activeSection' = SectionKey.OVERVIEW
    /\ UNCHANGED <<app, user, projects, isLoading, isGenerating, now, timers, saveTimeoutRef,
                   inflight, remote, readers, pendingAi, ops, lastOp, saveLog, failed, crashed, inits, served, newProjectName, load, burst>>
    /\ LegacyEffects

\* current application: the header logo, onBack and "Workspace Overview"
GoToWorkspace ==
    /\ app = "current"
    /\ Ready
    /\ activeProjectId # 0
    /\ activeProjectId' = 0
    /\ activeSection' = SectionKey.PROJECT_LIST
    /\ UNCHANGED <<app, user, projects, isLoading, isGenerating, now, timers, saveTimeoutRef,
                   inflight, remote, localStorage, readers, pendingAi, ops, lastOp, saveLog,
                   failed, crashed, inits, served, newProjectName, load, burst>>

\* setActiveSection(section.key) from the sidebar or an overview card
setActiveSection(s) ==
    /\ Ready
    /\ activeProjectId \in ProjectIds(projects)
    /\ s # activeSection
    /\ IF app = "current"
       THEN s # SectionKey.PROJECT_LIST /\ activeSection # SectionKey.PROJECT_LIST
       ELSE TRUE
    /\ activeSection' = s
    /\ UNCHANGED <<app, user, projects, activeProjectId, isLoading, isGenerating, now, timers,
                   saveTimeoutRef, inflight, remote, localStorage, readers, pendingAi, ops,
                   lastOp, saveLog, failed, crashed, inits, served, newProjectName, load, burst>>

\* the form of the "New Project" modal (current) or of the project list (legacy),
\* submitted with `typed` in its input: `if (!newProjectName.trim()) return;`
\* leaves the form as it is, a created project resets it
handleCreateProject(typed) ==
    /\ Ready
    /\ app = "legacy" => ListShown
    /\ ops < MaxOps
    /\ IF Trim(typed) = <<>>
       THEN /\ newProjectName' = typed
            /\ UNCHANGED <<projects, activeProjectId, activeSection, inflight, saveLog,
                           lastOp, ops>>
       ELSE /\ LET newProject == createNewProject(FreshProjectId, Trim(typed), now)
               IN  /\ projects' = Prepend(projects, newProject)
                   /\ activeProjectId' = newProject.id
                   /\ IF app = "current" /\ user # ""
                      THEN /\ inflight' = inflight \cup {SaveRequest(newProject)}
                           /\ saveLog' = Append(saveLog, [id |-> newProject.id,
                                                          project |-> newProject,
                                                          via |-> "create"])
                      ELSE UNCHANGED <<inflight, saveLog>>
                   /\ lastOp' = [kind |-> "create", id |-> newProject.id, u |-> NoUpdater,
                                active |-> activeProjectId]
            /\ activeSection' = SectionKey.ABOUT
            /\ newProjectName' = <<>>
            /\ ops' = ops + 1
    /\ UNCHANGED <<app, user, isLoading, isGenerating, now, timers, saveTimeoutRef, remote,
                   readers, pendingAi, failed, crashed, inits, served, load, burst>>
    /\ LegacyEffects

\* the delete button of a project card, after confirm() returned true
handleDeleteProject(id) ==
    /\ ListShown
    /\ id \in ProjectIds(projects)
    /\ ops < MaxOps
    /\ projects' = RemoveProject(projects, id)
    /\ activeProjectId' = ActiveAfterDelete(activeProjectId, id)
    /\ activeSection' = SectionAfterDelete(activeProjectId, activeSection, id)
    /\ inflight' = (IF app = "current" /\ user # "" THEN inflight \cup {DeleteRequest(id)}
                    ELSE inflight)
    /\ ops' = ops + 1
    /\ lastOp' = [kind |-> "delete", id |-> id, u |-> NoUpdater, active |-> activeProjectId]
    /\ UNCHANGED <<app, user, isLoading, isGenerating, now, timers, saveTimeoutRef, remote,
                   readers, pendingAi, saveLog, failed, crashed, inits, served, newProjectName, load, burst>>
    /\ LegacyEffects

-----------------------------------------------------------------------------
(* The editing handlers of the About and framework sections *)

\* the ideas rendered for the category acted on in the section on screen
ShownIdeas ==
    LET p == ProjectOf(projects, activeProjectId)
        items == p.frameworks[activeSection]
    IN  items[FindIndex(items, Targets[activeSection]) + 1].ideas

InFramework == CanEdit /\ activeSection \in DOMAIN Targets

SelectProject == \E id \in ProjectIds(projects) : handleProjectSelect(id)

\* the sidebar entries used: About, a framework, and (legacy) All Projects
OpenAbout == setActiveSection(SectionKey.ABOUT)

OpenFramework == \E s \in DOMAIN Targets : setActiveSection(s)

OpenProjectList == setActiveSection(SectionKey.PROJECT_LIST)

\* the form submitted with any of the names
SubmitProjectName == \E n \in Names : handleCreateProject(n)

\* the form submitted with a name that is not blank
CreateProject == \E n \in Names : Trim(n) # <<>> /\ handleCreateProject(n)

DeleteProject == \E id \in ProjectIds(projects) : handleDeleteProject(id)

EditBusinessDetails ==
    /\ activeSection = SectionKey.ABOUT
    /\ \E v \in DetailTexts : Edit([kind |-> "businessDetails", value |-> v])

RemoveDocument ==
    /\ activeSection = SectionKey.ABOUT
    /\ CanEdit
    /\ \E f \in Range(ProjectOf(projects, activeProjectId).businessFiles) :
          Edit([kind |-> "removeFile", fileId |-> f.id])

\* handleAddIdea: const text = newItemTexts[itemId]?.trim(); if (!text) return
handleAddIdea ==
    /\ InFramework
    /\ \E t \in IdeaTexts :
          /\ Trim(t) # <<>>
          /\ Edit([kind |-> "addIdea", sectionKey |-> activeSection,
                   itemId |-> Targets[activeSection], text |-> Trim(t),
                   newId |-> FreshIds(UsedIdeaIds, 1)[1]])

toggleIdea ==
    /\ InFramework
    /\ \E i \in Range(ShownIdeas) :
          Edit([kind |-> "toggleIdea", sectionKey |-> activeSection,
                itemId |-> Targets[activeSection], ideaId |-> i.id])

deleteIdea ==
    /\ InFramework
    /\ \E i \in Range(ShownIdeas) :
          Edit([kind |-> "deleteIdea", sectionKey |-> activeSection,
                itemId |-> Targets[activeSection], ideaId |-> i.id])

EditJustification ==
    /\ InFramework
    /\ \E v \in JustificationTexts :
          Edit([kind |-> "justification", sectionKey |-> activeSection,
                itemId |-> Targets[activeSection], val |-> v])

\* updateActiveProject given an updater that writes lastUpdated
EditWritingStamp ==
    /\ activeSection = SectionKey.ABOUT
    /\ Edit([kind |-> "writeStamp", value |-> 0])

(* Legacy-only handlers *)

MoveIdeaClick ==
    /\ app = "legacy"
    /\ InFramework
    /\ \E i \in Range(ShownIdeas), d \in {"up", "down"} :
          Edit([kind |-> "moveIdea", sectionKey |-> activeSection,
                itemId |-> Targets[activeSection], ideaId |-> i.id, direction |-> d])

\* moveIdea called with the id of any idea of the category on screen, or with
\* an id that no idea of it has
moveIdeaCall ==
    /\ app = "legacy"
    /\ InFramework
    /\ \E ideaId \in {i.id : i \in Range(ShownIdeas)} \cup {FreshIds(UsedIdeaIds, 1)[1]},
          d \in {"up", "down"} :
          Edit([kind |-> "moveIdea", sectionKey |-> activeSection,
                itemId |-> Targets[activeSection], ideaId |-> ideaId, direction |-> d])

EditIdeaText ==
    /\ app = "legacy"
    /\ InFramework
    /\ \E i \in Range(ShownIdeas), t \in IdeaTexts :
          /\ ~i.isAiGenerated
          /\ Edit([kind |-> "ideaText", sectionKey |-> activeSection,
                   itemId |-> Targets[activeSection], ideaId |-> i.id, text |-> t])

RenameDocument ==
    /\ app = "legacy"
    /\ activeSection = SectionKey.ABOUT
    /\ CanEdit
    /\ \E f \in Range(ProjectOf(projects, activeProjectId).businessFiles) :
          Edit([kind |-> "renameFile", fileId |-> f.id, name |-> <<"g">>])

EditDocumentContent ==
    /\ app = "legacy"
    /\ activeSection = SectionKey.ABOUT
    /\ CanEdit
    /\ \E f \in Range(ProjectOf(projects, activeProjectId).businessFiles) :
          Edit([kind |-> "editFileContent", fileId |-> f.id,
                content |-> [src |-> "typed", len |-> ContentCap + 1]])

(* Asynchronous handlers: the update runs later, in the closure of the render
   in which the handler was called *)

\* the runs explored have one asynchronous read or request outstanding at a time
NoneOutstanding == readers = {} /\ pendingAi = {}

\* handleFileUpload: reader.readAsText(file) for one chosen file
handleFileUpload ==
    /\ CanEdit
    /\ activeSection = SectionKey.ABOUT
    /\ NoneOutstanding
    /\ \E c \in FileTexts :
          readers' = readers \cup {[aid |-> activeProjectId, name |-> <<"f">>, content |-> c]}
    /\ UNCHANGED <<app, user, projects, activeProjectId, activeSection, isLoading, isGenerating,
                   now, timers, saveTimeoutRef, inflight, remote, localStorage, pendingAi,
                   ops, lastOp, saveLog, failed, crashed, inits, served, newProjectName, load, burst>>

\* reader.onload
ReaderOnload ==
    \E r \in readers :
        /\ updateActiveProject(r.aid, [kind |-> "appendFile", fileId |-> FreshFileId,
                                       name |-> r.name, content |-> r.content])
        /\ readers' = readers \ {r}
        /\ UNCHANGED <<isGenerating, pendingAi>>

\* generateIdeas up to its await; the button is disabled while isGenerating
generateIdeas ==
    /\ InFramework
    /\ ~isGenerating
    /\ NoneOutstanding
    /\ isGenerating' = TRUE
    /\ pendingAi' = pendingAi \cup {[aid |-> activeProjectId, frameworkKey |-> activeSection,
                                     itemId |-> Targets[activeSection]]}
    /\ UNCHANGED <<app, user, projects, activeProjectId, activeSection, isLoading, now, timers,
                   saveTimeoutRef, inflight, remote, localStorage, readers, ops, lastOp,
                   saveLog, failed, crashed, inits, served, newProjectName, load, burst>>

\* a faulty variant of the action below, whose updater runs for the project
\* that is active when the response arrives; C29 is tested against it
GenerateIdeasMergeIntoActive ==
    \E g \in pendingAi, data \in Responses :
        /\ ~crashed
        /\ IsArray(data.ideas) \/ activeProjectId \notin ProjectIds(projects)
        /\ LET suggestions == data.ideas.items
           IN  updateActiveProject(activeProjectId,
                                   [kind |-> "merge", sectionKey |-> g.frameworkKey,
                                    itemId |-> g.itemId, suggestions |-> suggestions,
                                    newIds |-> FreshIds(UsedIdeaIds, Len(suggestions))])
        /\ pendingAi' = pendingAi \ {g}
        /\ isGenerating' = FALSE
        /\ UNCHANGED readers

\* generateIdeas after a 2xx response: suggestions = data.ideas, the merge, then
\* finally. The updater runs for the project whose id is the one the call was
\* bound to; with no such project it does not run at all
GenerateIdeasMerge ==
    \E g \in pendingAi, data \in Responses :
        /\ ~crashed
        /\ IsArray(data.ideas) \/ g.aid \notin ProjectIds(projects)
        /\ LET suggestions == data.ideas.items
           IN  updateActiveProject(g.aid, [kind |-> "merge", sectionKey |-> g.frameworkKey,
                                          itemId |-> g.itemId, suggestions |-> suggestions,
                                          newIds |-> FreshIds(UsedIdeaIds, Len(suggestions))])
        /\ pendingAi' = pendingAi \ {g}
        /\ isGenerating' = FALSE
        /\ UNCHANGED readers

\* generateIdeas after a 2xx response whose ideas are no array: suggestions.map
\* throws a TypeError inside the updater given to setProjects, React rethrows it
\* while rendering, no error boundary exists, and the tree is unmounted
GenerateIdeasThrows ==
    \E g \in pendingAi, data \in Responses :
        /\ ~crashed
        /\ ops < MaxOps
        /\ ~IsArray(data.ideas) /\ g.aid \in ProjectIds(projects)
        /\ crashed' = TRUE
        /\ pendingAi' = pendingAi \ {g}
        /\ isGenerating' = FALSE
        /\ UNCHANGED <<app, user, projects, activeProjectId, activeSection, isLoading, now,
                       timers, saveTimeoutRef, inflight, remote, localStorage, readers, ops,
                       lastOp, saveLog, failed, load, inits, served, newProjectName, burst>>

\* a faulty variant of the action below, without the finally block; C14 is
\* tested against it
GenerateIdeasFailNoFinally ==
    \E g \in pendingAi :
        /\ ~crashed
        /\ pendingAi' = pendingAi \ {g}
        /\ failed' = TRUE
        /\ UNCHANGED <<app, user, projects, activeProjectId, activeSection, isLoading,
                       isGenerating, now, timers, saveTimeoutRef, inflight, remote,
                       localStorage, readers, ops, lastOp, saveLog, crashed, inits, served, newProjectName, load, burst>>

\* generateIdeas after a failed request (fetch rejects, the status is not 2xx,
\* or the body is no JSON): catch, which logs the error, then finally
GenerateIdeasFail ==
    \E g \in pendingAi :
        /\ ~crashed
        /\ pendingAi' = pendingAi \ {g}
        /\ isGenerating' = FALSE
        /\ failed' = TRUE
        /\ UNCHANGED <<app, user, projects, activeProjectId, activeSection, isLoading, now,
                       timers, saveTimeoutRef, inflight, remote, localStorage, readers, ops,
                       lastOp, saveLog, crashed, inits, served, newProjectName, load, burst>>

-----------------------------------------------------------------------------
(* Time, timers and the server *)

\* time passes; a timer that is due fires before time passes further
Tick ==
    /\ now < EndMs
    /\ \A t \in timers : t.due > now
    /\ now' = now + TickMs
    /\ UNCHANGED <<app, user, projects, activeProjectId, activeSection, isLoading, isGenerating,
                   timers, saveTimeoutRef, inflight, remote, localStorage, readers, pendingAi,
                   ops, lastOp, saveLog, failed, crashed, inits, served, newProjectName, load, burst>>

\* the callback of saveProjectDebounced: saveProject(user.uid, project)
TimerFire ==
    \E t \in timers :
        /\ now >= t.due
        /\ timers' = timers \ {t}
        /\ inflight' = inflight \cup {SaveRequest(t.project)}
        /\ saveLog' = Append(saveLog, [id |-> t.project.id, project |-> t.project,
                                       via |-> "debounce"])
        /\ UNCHANGED <<app, user, projects, activeProjectId, activeSection, isLoading,
                       isGenerating, now, saveTimeoutRef, remote, localStorage, readers,
                       pendingAi, ops, lastOp, failed, crashed, inits, served, newProjectName, load, burst>>

\* the server handles one request, in any order of arrival
ServerHandle ==
    \E r \in inflight :
        /\ inflight' = inflight \ {r}
        /\ remote' = (IF r.kind = "save" THEN RemoteAfterSave(remote, r.project)
                      ELSE RemoteAfterDelete(remote, r.id))
        /\ UNCHANGED <<app, user, projects, activeProjectId, activeSection, isLoading,
                       isGenerating, now, timers, saveTimeoutRef, localStorage, readers,
                       pendingAi, ops, lastOp, saveLog, failed, crashed, inits, served, newProjectName, load, burst>>

\* a request fails (network error or a 500 of the server): the promise of the
\* storage service settles and the caller's .catch logs a rejection
RequestFails ==
    \E r \in inflight :
        /\ inflight' = inflight \ {r}
        /\ failed' = (failed \/ request("error").rejected)
        /\ UNCHANGED <<app, user, projects, activeProjectId, activeSection, isLoading,
                       isGenerating, now, timers, saveTimeoutRef, remote, localStorage, readers,
                       pendingAi, ops, lastOp, saveLog, burst, crashed, inits, served, newProjectName, load>>

-----------------------------------------------------------------------------
(* The persistence gateway called on its own *)

\* saveProject(userId, project) answered with a 2xx: the POST handler has run
GatewaySave ==
    \E p \in SavedProjects :
        /\ ops < MaxOps
        /\ remote' = RemoteAfterSave(remote, p)
        /\ saveLog' = Append(saveLog, [id |-> p.id, project |-> p, via |-> "gateway",
                                       prior |-> (IF p.id \in DOMAIN remote
                                                  THEN <<remote[p.id]>> ELSE <<>>)])
        /\ load' = NoLoad
        /\ ops' = ops + 1
        /\ UNCHANGED <<app, user, projects, activeProjectId, activeSection, isLoading,
                       isGenerating, now, timers, saveTimeoutRef, inflight, localStorage,
                       readers, pendingAi, lastOp, failed, crashed, inits, served, newProjectName, burst>>

\* loadProjects(userId) answered with a 2xx, right after a save
GatewayLoad ==
    /\ saveLog # <<>>
    /\ load.phase = "idle"
    /\ load' = [load EXCEPT !.phase = "settled", !.gateway = "proxy", !.since = now,
                            !.outcome = "ok", !.result = loadProjects("ok", remote)]
    /\ UNCHANGED <<app, user, projects, activeProjectId, activeSection, isLoading,
                   isGenerating, now, timers, saveTimeoutRef, inflight, remote, localStorage,
                   readers, pendingAi, ops, lastOp, saveLog, failed, crashed, inits, served, newProjectName, burst>>

-----------------------------------------------------------------------------
(* The server called by any client *)

\* a POST /api/v1/projects/u1 with some body is handled
ServePostProject ==
    \E body \in ProjectBodies :
        LET res == PostProject(remote, body)
        IN  /\ ops < MaxOps
            /\ remote' = res.remote
            /\ served' = [route |-> "projects", body |-> body, status |-> res.status,
                          json |-> res.json, wroteUser |-> res.wroteUser,
                          calledModel |-> res.calledModel]
            /\ ops' = ops + 1
            /\ UNCHANGED <<app, user, projects, activeProjectId, activeSection, isLoading,
                           isGenerating, now, timers, saveTimeoutRef, inflight, localStorage,
                           readers, pendingAi, lastOp, saveLog, failed, crashed, load, inits,
                           newProjectName, burst>>

\* a POST /api/v1/generate-ideas with some body is handled
ServePostGenerateIdeas ==
    \E body \in IdeaBodies, configured \in BOOLEAN, text \in ModelTexts :
        LET res == PostGenerateIdeas(configured, body, text)
        IN  /\ ops < MaxOps
            /\ served' = [route |-> "generate-ideas", body |-> body, status |-> res.status,
                          json |-> res.json, wroteUser |-> res.wroteUser,
                          calledModel |-> res.calledModel]
            /\ ops' = ops + 1
            /\ UNCHANGED <<app, user, projects, activeProjectId, activeSection, isLoading,
                           isGenerating, now, timers, saveTimeoutRef, inflight, remote,
                           localStorage, readers, pendingAi, lastOp, saveLog, failed, crashed,
                           load, inits, newProjectName, burst>>

-----------------------------------------------------------------------------

Next ==
    \/ InitializeProjects
    \/ SelectProject
    \/ GoToWorkspace
    \/ OpenAbout
    \/ OpenFramework
    \/ OpenProjectList
    \/ SubmitProjectName
    \/ DeleteProject
    \/ EditBusinessDetails
    \/ RemoveDocument
    \/ handleAddIdea
    \/ toggleIdea
    \/ deleteIdea
    \/ EditJustification
    \/ EditWritingStamp
    \/ MoveIdeaClick
    \/ EditIdeaText
    \/ RenameDocument
    \/ EditDocumentContent
    \/ handleFileUpload
    \/ ReaderOnload
    \/ generateIdeas
    \/ GenerateIdeasMerge
    \/ GenerateIdeasFail
    \/ GenerateIdeasThrows
    \/ StartLoad
    \/ LoadSettles
    \/ LoadWait
    \/ LoadTimesOut
    \/ StartMigration
    \/ MigrationSave
    \/ MigrationSaveFails
    \/ MigrationDone
    \/ Tick
    \/ TimerFire
    \/ ServerHandle
    \/ RequestFails

Spec == Init /\ [][Next]_vars

-----------------------------------------------------------------------------
(* The store of either application: the handlers run at one instant, so no
   timer comes due and no request is handled yet *)

InitStore == Init

NextStore ==
    \/ InitializeProjects
    \/ SelectProject
    \/ GoToWorkspace
    \/ OpenAbout
    \/ OpenFramework
    \/ OpenProjectList
    \/ CreateProject
    \/ DeleteProject
    \/ EditBusinessDetails
    \/ RemoveDocument
    \/ handleAddIdea
    \/ toggleIdea
    \/ deleteIdea
    \/ EditJustification
    \/ EditWritingStamp
    \/ MoveIdeaClick
    \/ EditIdeaText
    \/ RenameDocument
    \/ EditDocumentContent
    \/ handleFileUpload
    \/ ReaderOnload
    \/ generateIdeas
    \/ GenerateIdeasMerge
    \/ GenerateIdeasFail
    \/ GenerateIdeasThrows

SpecStore == InitStore /\ [][NextStore]_vars

(* The current application with a signed-in user: the store, the clock, the
   debounced save and the server *)

InitSave == Init /\ user # ""

NextSave ==
    \/ InitializeProjects
    \/ SelectProject
    \/ GoToWorkspace
    \/ OpenAbout
    \/ CreateProject
    \/ DeleteProject
    \/ EditBusinessDetails
    \/ EditWritingStamp
    \/ Tick
    \/ TimerFire
    \/ ServerHandle

SpecSave == InitSave /\ [][NextSave]_vars

(* The same with the project list, and with requests that fail *)

InitRemote == InitSave /\ remote = SeededRemote

NextRemote ==
    \/ InitializeProjects
    \/ SelectProject
    \/ OpenAbout
    \/ GoToWorkspace
    \/ CreateProject
    \/ DeleteProject
    \/ EditBusinessDetails
    \/ Tick
    \/ TimerFire
    \/ ServerHandle
    \/ RequestFails

SpecRemote == InitRemote /\ [][NextRemote]_vars

(* The suggestion requests of either application: the framework pages, the
   request, and each way it can end *)

InitAi == Init

NextAi ==
    \/ InitializeProjects
    \/ SelectProject
    \/ OpenFramework
    \/ OpenProjectList
    \/ DeleteProject
    \/ handleAddIdea
    \/ generateIdeas
    \/ GenerateIdeasMerge
    \/ GenerateIdeasFail
    \/ GenerateIdeasThrows

SpecAi == InitAi /\ [][NextAi]_vars

(* The idea lists of the legacy application, with moveIdea given any id *)

InitReorder == Init /\ app = "legacy"

NextReorder ==
    \/ SelectProject
    \/ OpenFramework
    \/ handleAddIdea
    \/ toggleIdea
    \/ deleteIdea
    \/ moveIdeaCall

SpecReorder == InitReorder /\ [][NextReorder]_vars

(* The suggestion requests while the user moves between projects *)

InitSwitch == Init

NextSwitch ==
    \/ InitializeProjects
    \/ SelectProject
    \/ GoToWorkspace
    \/ OpenFramework
    \/ OpenProjectList
    \/ DeleteProject
    \/ generateIdeas
    \/ GenerateIdeasMerge

SpecSwitch == InitSwitch /\ [][NextSwitch]_vars

(* The project list of either application: the new-project form with any name *)

InitCreate == Init

NextCreate ==
    \/ InitializeProjects
    \/ SubmitProjectName
    \/ SelectProject
    \/ OpenAbout
    \/ OpenProjectList
    \/ DeleteProject
    \/ EditBusinessDetails

SpecCreate == InitCreate /\ [][NextCreate]_vars

(* The current application with a signed-in user from its mount on: the load
   of the projects, step by step, and the store afterwards. The effect runs
   once mounted, time passes and a timer that is due fires; nothing makes the
   remote side answer *)

InitLoad == Init /\ app = "current" /\ user # ""

NextLoad ==
    \/ StartLoad
    \/ LoadSettles
    \/ LoadWait
    \/ LoadTimesOut
    \/ SelectProject
    \/ GoToWorkspace
    \/ OpenAbout
    \/ CreateProject
    \/ DeleteProject
    \/ EditBusinessDetails

(* The persistence gateway as a function of the remote collection: saves and
   loads against each prior collection *)

InitGateway ==
    /\ app = "current"
    /\ user = "u1"
    /\ remote \in PriorRemotes
    /\ projects = <<>>
    /\ activeProjectId = 0
    /\ activeSection = SectionKey.PROJECT_LIST
    /\ isLoading = TRUE
    /\ localStorage = NoCache
    /\ isGenerating = FALSE
    /\ now = StartMs
    /\ timers = {}
    /\ saveTimeoutRef = {}
    /\ inflight = {}
    /\ readers = {}
    /\ pendingAi = {}
    /\ ops = 0
    /\ lastOp = NoLastOp
    /\ saveLog = <<>>
    /\ failed = FALSE
    /\ burst = NoBurst
    /\ crashed = FALSE
    /\ load = NoLoad
    /\ inits = {}
    /\ newProjectName = <<>>
    /\ served = NoResponse

NextGateway == GatewaySave \/ GatewayLoad

SpecGateway == InitGateway /\ [][NextGateway]_vars

(* The server's two POST routes against each prior collection *)

InitServer == InitGateway

NextServer == ServePostProject \/ ServePostGenerateIdeas

SpecServer == InitServer /\ [][NextServer]_vars

(* The current application of a signed-in user whose browser may hold the
   local cache of an earlier version: the migration, save by save *)

InitMigrate ==
    /\ app = "current"
    /\ user = "u1"
    /\ remote \in {EmptyRemote, SeededRemote}
    /\ localStorage \in {NoCache, [NoCache EXCEPT !.v1 = CachedProjects]}
    /\ projects = <<>>
    /\ activeProjectId = 0
    /\ activeSection = SectionKey.PROJECT_LIST
    /\ isLoading = TRUE
    /\ isGenerating = FALSE
    /\ now = StartMs
    /\ timers = {}
    /\ saveTimeoutRef = {}
    /\ inflight = {}
    /\ readers = {}
    /\ pendingAi = {}
    /\ ops = 0
    /\ lastOp = NoLastOp
    /\ saveLog = <<>>
    /\ failed = FALSE
    /\ burst = NoBurst
    /\ crashed = FALSE
    /\ load = NoLoad
    /\ inits = {}
    /\ newProjectName = <<>>
    /\ served = NoResponse

NextMigrate ==
    \/ InitializeProjects
    \/ StartMigration
    \/ MigrationSave
    \/ MigrationSaveFails
    \/ MigrationDone
    \/ SelectProject
    \/ OpenAbout
    \/ CreateProject
    \/ EditBusinessDetails

SpecMigrate == InitMigrate /\ [][NextMigrate]_vars

SpecLoad ==
    /\ InitLoad
    /\ [][NextLoad]_vars
    /\ WF_vars(StartLoad)
    /\ WF_vars(LoadWait)
    /\ WF_vars(LoadTimesOut)

-----------------------------------------------------------------------------
(* Properties of the debounced persistence, under SpecSave *)

\* the step is a run of updateActiveProject / handleCreateProject / handleDeleteProject
UpdateStep == ops' = ops + 1 /\ lastOp'.kind = "update"
CreateStep == ops' = ops + 1 /\ lastOp'.kind = "create"
DeleteStep == ops' = ops + 1 /\ lastOp'.kind = "delete"

\* the saveProject calls for project id made after the first base calls
SavesSince(id, base) == {k \in (base + 1)..Len(saveLog) : saveLog[k].id = id}

\* C1: no step lowers the lastUpdated of a project that stays in the list, and
\* a run of updateActiveProject on a project of the list leaves that project's
\* lastUpdated equal to the clock, which is at least the previous value,
\* whatever the updater wrote into lastUpdated.
C1_LastUpdatedRefreshed ==
    [][ /\ \A i \in 1..Len(projects), j \in 1..Len(projects') :
              projects[i].id = projects'[j].id
                  => projects'[j].lastUpdated >= projects[i].lastUpdated
        /\ (UpdateStep /\ lastOp'.id \in ProjectIds(projects))
              => /\ ProjectOf(projects', lastOp'.id).lastUpdated = now
                 /\ now >= ProjectOf(projects, lastOp'.id).lastUpdated ]_vars

\* an updater that wrote 0 into lastUpdated has just run, after the clock advanced
C1_Witness ==
    /\ lastOp.kind = "update"
    /\ lastOp.u.kind = "writeStamp"
    /\ lastOp.id \in ProjectIds(projects)
    /\ now > StartMs
    /\ ProjectOf(projects, lastOp.id).lastUpdated = now

\* C2: for a burst of updates of one project, each within DebounceMs of the
\* previous one, with no update of another project after its last update:
\* no save of the project is issued before the window of the last update has
\* elapsed, and once more than DebounceMs has passed since the last update
\* exactly one save of the project has been issued since the burst began, and
\* its payload is the project as the last update of the burst left it.
C2_OneSavePerBurst ==
    \A id \in DOMAIN burst :
        LET b == burst[id]
            saves == SavesSince(id, b.base)
        IN  ~b.disturbed =>
                /\ now < b.last + DebounceMs => saves = {}
                /\ now > b.last + DebounceMs =>
                      /\ Cardinality(saves) = 1
                      /\ \A k \in saves : saveLog[k].project = b.state

\* a burst of at least two updates, followed by more than DebounceMs of quiet,
\* has produced its one save
C2_Witness ==
    \E id \in DOMAIN burst :
        /\ burst[id].edits >= 2
        /\ ~burst[id].disturbed
        /\ now > burst[id].last + DebounceMs
        /\ Cardinality(SavesSince(id, burst[id].base)) = 1

\* C3: the debounce is per project: once more than DebounceMs has passed since
\* the last update of a project, a save of the state that update left has been
\* issued, whether or not another project was updated in the meantime.
C3_EachProjectSaved ==
    \A id \in DOMAIN burst :
        now > burst[id].last + DebounceMs =>
            \E k \in SavesSince(id, burst[id].base) : saveLog[k].project = burst[id].state

\* C4: when one project only has been updated, more than DebounceMs has passed
\* since its last update, no timer is pending, no request is in flight and no
\* request has failed, the remote document of the project equals the project
\* in memory.
C4_RemoteEqualsMemory ==
    \A id \in DOMAIN burst :
        ( /\ DOMAIN burst = {id}
          /\ id \in ProjectIds(projects)
          /\ now > burst[id].last + DebounceMs
          /\ timers = {}
          /\ inflight = {}
          /\ ~failed )
        => /\ id \in DOMAIN remote
           /\ remote[id] = ProjectOf(projects, id)

-----------------------------------------------------------------------------
(* Properties of the store, under SpecStore *)

\* the framework keys and, per key, the category ids the specification lists
ExpectedCategoryIds ==
    [pestle |-> <<"political", "economic", "social", "technological", "legal", "environmental">>,
     porters |-> <<"rivalry", "suppliers", "buyers", "substitution", "new_entry">>,
     marketing |-> <<"product", "price", "place", "promotion">>,
     swot |-> <<"strengths", "weaknesses", "opportunities", "threats">>]

\* the category ids of one framework of a project, in order
CategoryIds(p, key) == [i \in 1..Len(p.frameworks[key]) |-> p.frameworks[key][i].id]

\* the idea list of one category of the project id of the list ps
IdeasIn(ps, id, sectionKey, itemId) ==
    LET items == ProjectOf(ps, id).frameworks[sectionKey]
    IN  items[FindIndex(items, itemId) + 1].ideas

\* C5: the project handleCreateProject has just made has exactly the framework
\* keys pestle, porters, marketing and swot, each with the catalog's categories
\* in catalog order (6, 5, 4 and 4 of them), every idea list and every
\* justification empty, an empty description and no documents.
C5_CreatedFromCatalog ==
    lastOp.kind = "create" =>
        LET p == ProjectOf(projects, lastOp.id)
        IN  /\ DOMAIN p.frameworks = {"pestle", "porters", "marketing", "swot"}
            /\ \A key \in DOMAIN p.frameworks :
                  /\ CategoryIds(p, key) = ExpectedCategoryIds[key]
                  /\ \A i \in 1..Len(p.frameworks[key]) :
                        /\ p.frameworks[key][i].ideas = <<>>
                        /\ p.frameworks[key][i].justification = <<>>
            /\ Len(p.frameworks.pestle) = 6
            /\ Len(p.frameworks.porters) = 5
            /\ Len(p.frameworks.marketing) = 4
            /\ Len(p.frameworks.swot) = 4
            /\ p.businessDetails = <<>>
            /\ p.businessFiles = <<>>

\* a project named N has just been created beside two earlier ones
C5_Witness ==
    /\ lastOp.kind = "create"
    /\ Len(projects) = 3
    /\ ProjectOf(projects, lastOp.id).name = <<"N">>

\* C6: handleCreateProject puts the new project at index 0 with the earlier
\* projects after it in their earlier order, makes it the active project, and
\* when a user is signed in sends a save request carrying the new project.
C6_CreatePrepends ==
    [][ CreateStep =>
          /\ Len(projects') = Len(projects) + 1
          /\ projects' = <<projects'[1]>> \o projects
          /\ projects'[1].id = lastOp'.id
          /\ projects'[1].id \notin ProjectIds(projects)
          /\ activeProjectId' = projects'[1].id
          /\ user # "" =>
                \E r \in inflight' \ inflight : r.kind = "save" /\ r.project = projects'[1] ]_vars

\* a signed-in user has just created a project beside two earlier ones
C6_Witness ==
    /\ lastOp.kind = "create"
    /\ user # ""
    /\ Len(projects) = 3
    /\ projects[1].id = lastOp.id
    /\ activeProjectId = lastOp.id
    /\ \E r \in inflight : r.kind = "save" /\ r.project = projects[1]

\* C7: every project of the list has the four framework keys and, under each,
\* the category ids of the catalog in catalog order, whatever operations ran.
C7_CatalogShapeKept ==
    \A n \in 1..Len(projects) :
        /\ DOMAIN projects[n].frameworks = DOMAIN ExpectedCategoryIds
        /\ \A key \in DOMAIN ExpectedCategoryIds :
              CategoryIds(projects[n], key) = ExpectedCategoryIds[key]

\* suggestions have just been merged into a category that an earlier operation
\* had already changed
C7_Witness ==
    /\ lastOp.kind = "update"
    /\ lastOp.u.kind = "merge"
    /\ ops = MaxOps
    /\ lastOp.id \in ProjectIds(projects)
    /\ Len(IdeasIn(projects, lastOp.id, lastOp.u.sectionKey, lastOp.u.itemId)) > Len(lastOp.u.suggestions)

\* C8: a run of updateActiveProject keeps the length and the order of the
\* list and leaves every project but the one with the matching id as it was;
\* when no project has that id the list is unchanged, no timer is set or
\* cleared and no request is sent.
C8_UpdateTouchesOneProject ==
    [][ UpdateStep =>
          /\ Len(projects') = Len(projects)
          /\ \A i \in 1..Len(projects) :
                /\ projects'[i].id = projects[i].id
                /\ projects[i].id # lastOp'.id => projects'[i] = projects[i]
          /\ lastOp'.id \notin ProjectIds(projects) =>
                /\ projects' = projects
                /\ timers' = timers
                /\ saveTimeoutRef' = saveTimeoutRef
                /\ inflight' = inflight ]_vars

\* a file read has completed for a project a signed-in user had deleted in the
\* meantime, while another project remains
C8_Witness ==
    /\ lastOp.kind = "update"
    /\ lastOp.u.kind = "appendFile"
    /\ lastOp.id \notin ProjectIds(projects)
    /\ user # ""
    /\ projects # <<>>

\* C9: handleDeleteProject removes the project with the given id and nothing
\* else; the active selection becomes null when it was that project and stays
\* as it was otherwise.
C9_DeleteRemovesOne ==
    [][ DeleteStep =>
          /\ \E i \in 1..Len(projects) :
                /\ projects[i].id = lastOp'.id
                /\ projects' = SubSeq(projects, 1, i - 1) \o SubSeq(projects, i + 1, Len(projects))
          /\ lastOp'.id \notin ProjectIds(projects')
          /\ activeProjectId = lastOp'.id => activeProjectId' = 0
          /\ activeProjectId # lastOp'.id => activeProjectId' = activeProjectId ]_vars

\* the active project has just been deleted and another project remains
C9_Witness ==
    /\ lastOp.kind = "delete"
    /\ lastOp.active = lastOp.id
    /\ activeProjectId = 0
    /\ projects # <<>>

\* C10: moveIdea on the idea at index i swaps it with the idea at i-1 (up) or
\* i+1 (down) and leaves the other positions as they were; with the idea at
\* index 0 and direction up, or at the last index and direction down, the idea
\* list is unchanged.
C10_MoveSwapsNeighbours ==
    [][ (UpdateStep /\ lastOp'.u.kind = "moveIdea" /\ lastOp'.id \in ProjectIds(projects)) =>
          LET u == lastOp'.u
              old == IdeasIn(projects, lastOp'.id, u.sectionKey, u.itemId)
              new == IdeasIn(projects', lastOp'.id, u.sectionKey, u.itemId)
              i == FindIndex(old, u.ideaId) + 1
              j == IF u.direction = "up" THEN i - 1 ELSE i + 1
          IN  /\ i >= 1
              /\ IF 1 <= j /\ j <= Len(old)
                 THEN new = [k \in 1..Len(old) |->
                                IF k = i THEN old[j] ELSE IF k = j THEN old[i] ELSE old[k]]
                 ELSE new = old ]_vars

\* after a swap of the first two of three ideas, the last idea has just been
\* moved down, which changed nothing
C10_Witness ==
    /\ lastOp.kind = "update"
    /\ lastOp.u.kind = "moveIdea"
    /\ lastOp.u.direction = "down"
    /\ lastOp.id \in ProjectIds(projects)
    /\ LET ideas == IdeasIn(projects, lastOp.id, lastOp.u.sectionKey, lastOp.u.itemId)
       IN  /\ Len(ideas) = 3
           /\ ideas[3].id = lastOp.u.ideaId
           /\ ideas[1].id > ideas[2].id

-----------------------------------------------------------------------------
(* Properties of the documents, under SpecStore *)

\* C11: every document record of every project holds at most ContentCap
\* characters of content, whatever operations ran on it.
C11_ContentWithinCap ==
    \A n \in 1..Len(projects) :
        \A f \in 1..Len(projects[n].businessFiles) :
            projects[n].businessFiles[f].content.len <= ContentCap

-----------------------------------------------------------------------------
(* Properties of the suggestion requests, under SpecAi *)

\* the step is the merge of a response into a project of the store
MergeStep ==
    /\ UpdateStep
    /\ lastOp'.u.kind = "merge"
    /\ lastOp'.id \in ProjectIds(projects)

\* C12: the merge of k suggestions into a category holding n ideas leaves those
\* n ideas as they were, in place, and appends k ideas in the order of the
\* response; the j-th of them (from 0) has the j-th string followed by " (AI)"
\* as its text, is flagged AI-generated, is not selected and has order n + j.
C12_MergeAppends ==
    [][MergeStep =>
        LET u == lastOp'.u
            old == IdeasIn(projects, lastOp'.id, u.sectionKey, u.itemId)
            new == IdeasIn(projects', lastOp'.id, u.sectionKey, u.itemId)
            n == Len(old)
            k == Len(u.suggestions)
        IN  /\ Len(new) = n + k
            /\ SubSeq(new, 1, n) = old
            /\ \A j \in 0..(k - 1) :
                  /\ new[n + j + 1].text = u.suggestions[j + 1] \o AiSuffix
                  /\ new[n + j + 1].isAiGenerated
                  /\ ~new[n + j + 1].isSelected
                  /\ new[n + j + 1].order = n + j]_vars

\* three suggestions have been merged into a category that held three ideas
C12_Witness ==
    /\ lastOp.kind = "update"
    /\ lastOp.u.kind = "merge"
    /\ Len(lastOp.u.suggestions) = 3
    /\ lastOp.id \in ProjectIds(projects)
    /\ LET ideas == IdeasIn(projects, lastOp.id, lastOp.u.sectionKey, lastOp.u.itemId)
       IN  /\ Len(ideas) = 6
           /\ ideas[6].order = 5
           /\ ideas[6].text = <<"r">> \o AiSuffix

\* C13: one response is merged by one run of updateActiveProject, however many
\* suggestions it holds: the project's lastUpdated is set to the time of the
\* merge, and for a signed-in user of the current application the merge leaves
\* exactly one debounced save scheduled for the project, the one the ref
\* designates, which carries the project with all the suggestions merged.
C13_OneUpdatePerResponse ==
    [][MergeStep =>
        LET u == lastOp'.u
            merged == ProjectOf(projects', lastOp'.id)
        IN  /\ ops' = ops + 1
            /\ merged.lastUpdated = now
            /\ (app = "current" /\ user # "") =>
                  /\ timers' = (timers \ saveTimeoutRef) \cup {NewTimer(merged, now)}
                  /\ saveTimeoutRef' = {NewTimer(merged, now)}
                  /\ Cardinality({t \in timers' : t.project.id = merged.id}) = 1
                  /\ Len(IdeasIn(<<merged>>, merged.id, u.sectionKey, u.itemId))
                        = Len(IdeasIn(projects, merged.id, u.sectionKey, u.itemId))
                          + Len(u.suggestions)]_vars

\* a signed-in user's response of three suggestions has been merged, and one
\* save of the merged project is pending
C13_Witness ==
    /\ app = "current" /\ user # ""
    /\ lastOp.kind = "update"
    /\ lastOp.u.kind = "merge"
    /\ Len(lastOp.u.suggestions) = 3
    /\ lastOp.id \in ProjectIds(projects)
    /\ ProjectOf(projects, lastOp.id).lastUpdated = now
    /\ timers = {NewTimer(ProjectOf(projects, lastOp.id), now)}
    /\ saveTimeoutRef = timers

\* the step ends a suggestion request without a merge and without a crash
FailStep ==
    /\ pendingAi' # pendingAi /\ pendingAi' \subseteq pendingAi
    /\ ops' = ops /\ ~crashed'

\* C14: a suggestion request that fails changes no project, schedules no save
\* and sends nothing, and it leaves the generating flag false.
C14_FailedRequestIsInert ==
    [][FailStep =>
        /\ projects' = projects
        /\ activeProjectId' = activeProjectId
        /\ timers' = timers
        /\ saveTimeoutRef' = saveTimeoutRef
        /\ inflight' = inflight
        /\ localStorage' = localStorage
        /\ ~isGenerating']_vars

\* a request made on a project has failed, and no operation has run on the store
C14_Witness ==
    /\ failed
    /\ pendingAi = {}
    /\ ~isGenerating
    /\ activeProjectId \in ProjectIds(projects)
    /\ ops = 0
    /\ timers = {}

\* C15: whatever a 2xx response carries where the list of strings should be, the
\* step that ends the request leaves the application running (a response with
\* no usable list counts as zero suggestions).
C15_MalformedResponseTolerated ==
    [][(pendingAi' # pendingAi /\ pendingAi' \subseteq pendingAi) => ~crashed']_vars

\* C16: every response that is merged carries exactly three strings, so the
\* last merge, if any, was one of three suggestions.
C16_ThreeSuggestionsPerMerge ==
    (lastOp.kind = "update" /\ lastOp.u.kind = "merge") => Len(lastOp.u.suggestions) = 3

-----------------------------------------------------------------------------
(* Properties of the load, under SpecLoad *)

\* C17: loadProjects never rejects: whenever the remote fetch fails (the store
\* is unreachable or unconfigured, the request is refused, or the wait times
\* out) it resolves to the empty list, the store shows no project, and
\* initialisation ends with the loading flag cleared.
C17_LoadNeverRejects ==
    [][(load.phase = "pending" /\ load'.phase = "settled") =>
        /\ ~load'.result.rejected
        /\ load'.outcome # "ok" => (load'.result.value = <<>> /\ projects' = <<>>)
        /\ load'.outcome = "ok" => projects' = LoadProjects(remote)
        /\ ~isLoading']_vars

\* the store could not be reached while it held documents: the load resolved to
\* the empty list and the application is no longer loading
C17_Witness ==
    /\ load.phase = "settled"
    /\ load.outcome = "unreachable"
    /\ remote = SeededRemote
    /\ load.result = Resolved(<<>>)
    /\ projects = <<>>
    /\ ~isLoading

\* C18: the load always completes: once the bounded wait of LoadTimeoutMs is
\* over a fetch that has not answered counts as failed, so the application
\* eventually stops loading.
C18_LoadCompletes == <>(~isLoading)

-----------------------------------------------------------------------------
(* Properties of the persistence gateway, under SpecGateway *)

\* the last save made
LastSave == saveLog[Len(saveLog)]

\* C19: save is idempotent: a save of the project that the save before it
\* saved leaves every document of the remote collection as it was.
C19_SaveIdempotent ==
    [][(Len(saveLog') = Len(saveLog) + 1 /\ saveLog # <<>>
            /\ saveLog'[Len(saveLog')].project = LastSave.project)
        => remote' = remote]_vars

\* the same project has been saved twice in a row over a document that held
\* other content, and the remote document is the merge of the two
C19_Witness ==
    /\ Len(saveLog) >= 2
    /\ LastSave.project = saveLog[Len(saveLog) - 1].project
    /\ saveLog[Len(saveLog) - 1].prior # <<>>
    /\ saveLog[Len(saveLog) - 1].prior[1] # LastSave.project
    /\ LastSave.prior = <<remote[LastSave.id]>>

\* q holds every field of p, and every framework of p, with p's value
AgreesOn(q, p) ==
    /\ \A f \in (DOMAIN p) \ {"frameworks"} : f \in DOMAIN q /\ q[f] = p[f]
    /\ "frameworks" \in DOMAIN q
    /\ \A k \in DOMAIN p.frameworks :
          k \in DOMAIN q.frameworks /\ q.frameworks[k] = p.frameworks[k]

\* the document found by the save, if any, has no field and no framework that
\* p lacks
NothingBeyond(prior, p) ==
    \/ prior = <<>>
    \/ /\ DOMAIN prior[1] \subseteq DOMAIN p
       /\ "frameworks" \in DOMAIN prior[1] => DOMAIN prior[1].frameworks \subseteq DOMAIN p.frameworks

\* C20 (amended): a load made right after a successful save of p returns a list
\* with exactly one project of p's id; it holds every field of p and every
\* framework of p with p's value, and it equals p when the document the save
\* found, if any, had no field and no framework beyond those of p.
C20_RoundTripMerged ==
    (load.phase = "settled" /\ saveLog # <<>>) =>
        LET p == LastSave.project
            list == load.result.value
        IN  /\ Cardinality({n \in 1..Len(list) : list[n].id = p.id}) = 1
            /\ \A n \in 1..Len(list) :
                  list[n].id = p.id =>
                      /\ AgreesOn(list[n], p)
                      /\ NothingBeyond(LastSave.prior, p) => list[n] = p

\* a project was saved over a document that had a field of its own, and the
\* load returned the project with that field added
C20_Witness ==
    /\ load.phase = "settled"
    /\ saveLog # <<>>
    /\ LastSave.prior # <<>>
    /\ LastSave.project # SeedA
    /\ "archived" \in DOMAIN LastSave.prior[1]
    /\ \E n \in 1..Len(load.result.value) :
          LET q == load.result.value[n]
          IN  /\ q.id = LastSave.id
              /\ AgreesOn(q, LastSave.project)
              /\ "archived" \in DOMAIN q
              /\ q # LastSave.project

\* C20: a load made right after a successful save of p returns a list that
\* contains a project equal to p in all fields, whatever the remote collection
\* held before.
C20_RoundTripEqual ==
    (load.phase = "settled" /\ saveLog # <<>>) =>
        \E n \in 1..Len(load.result.value) : load.result.value[n] = LastSave.project

-----------------------------------------------------------------------------
(* Properties of failing requests and of deletes, under SpecRemote *)

\* the step settles a save request that the server has not applied
FailedSaveStep ==
    \E r \in inflight :
        /\ r.kind = "save"
        /\ inflight' = inflight \ {r}
        /\ remote' = remote
        /\ remote # RemoteAfterSave(remote, r.project)

\* C21: a save that fails is reported to its caller as a rejection (the caller
\* logs it), and the step changes nothing of the store: the project list with
\* every project's content, the active selection and section, and the pending
\* saves are what they were.
C21_FailedSaveKeepsMemory ==
    [][FailedSaveStep =>
        /\ failed'
        /\ projects' = projects
        /\ activeProjectId' = activeProjectId
        /\ activeSection' = activeSection
        /\ timers' = timers
        /\ saveTimeoutRef' = saveTimeoutRef]_vars

\* the save of a created project has failed: the project is in the list and
\* selected, and the remote store has no document of it
C21_Witness ==
    /\ failed
    /\ inflight = {}
    /\ lastOp.kind = "create"
    /\ activeProjectId = lastOp.id
    /\ lastOp.id \in ProjectIds(projects)
    /\ lastOp.id \notin DOMAIN remote

-----------------------------------------------------------------------------
(* Properties of the migration, under SpecMigrate *)

\* the saves the migration has made of the cached project with this id
MigrationSavesOf(id) ==
    {k \in 1..Len(saveLog) : saveLog[k].via = "migration" /\ saveLog[k].id = id}

\* C22: the migration is one-time: across the initialisations, each project of
\* the local cache is pushed to the remote store at most once, and nothing is
\* pushed when there is no cache.
C22_MigratedAtMostOnce ==
    \A n \in 1..Len(CachedProjects) :
        Cardinality(MigrationSavesOf(CachedProjects[n].id)) <= 1

\* C30: once the initialisation of a signed-in user has completed successfully
\* (by a load that was answered or by a migration that pushed every cached
\* project), and before anything else has happened, the store holds every
\* project that the remote store holds.
C30_StoreHoldsRemoteProjects ==
    ( /\ user # ""
      /\ ~isLoading
      /\ load.phase = "settled"
      /\ load.outcome \in {"ok", "migrated"}
      /\ \A i \in inits : i.phase = "done"
      /\ ops = 0 )
    => (DOMAIN remote) \subseteq ProjectIds(projects)

-----------------------------------------------------------------------------
(* Properties of the new-project form, under SpecCreate *)

\* the text has a character that is no space
NonBlank(t) == \E i \in 1..Len(t) : t[i] # " "

\* C23: a submit of a name that is blank is rejected before any effect: the
\* step that leaves such a name in the form changes neither the project list,
\* nor the active project or section, nor the local cache, and issues no save;
\* and no project is ever created with a blank name.
C23_BlankNameRejected ==
    [][ /\ (newProjectName' # newProjectName /\ newProjectName' # <<>>) =>
              /\ ~NonBlank(newProjectName')
              /\ projects' = projects
              /\ activeProjectId' = activeProjectId
              /\ activeSection' = activeSection
              /\ localStorage' = localStorage
              /\ inflight' = inflight
              /\ saveLog' = saveLog
              /\ timers' = timers
              /\ ops' = ops
        /\ CreateStep => NonBlank(ProjectOf(projects', lastOp'.id).name) ]_vars

\* a signed-in user has submitted a name of one space: it is still in the
\* form, the list is the one that was loaded, and nothing has been sent
C23_Witness ==
    /\ newProjectName = <<" ">>
    /\ app = "current" /\ user # ""
    /\ projects = LoadProjects(remote)
    /\ projects # <<>>
    /\ activeProjectId = 0
    /\ activeSection = SectionKey.PROJECT_LIST
    /\ ops = 0
    /\ inflight = {}
    /\ saveLog = <<>>

-----------------------------------------------------------------------------
(* Properties of the server's validation, under SpecServer *)

\* C24: a request with a required field missing is rejected before any backend
\* call or write: a suggestion request without frameworkKey or itemTitle is
\* answered with a non-2xx status and a body {error, message} and the model is
\* not called; a project upsert without an id is answered with a non-2xx status,
\* the user document is not written and no project document changes.
C24_MissingFieldsRejected ==
    [][ /\ ( /\ served'.route = "generate-ideas"
             /\ ops' = ops + 1
             /\ ~Has(served'.body, "frameworkKey") \/ ~Has(served'.body, "itemTitle") )
           => /\ served'.status \notin 200..299
              /\ served'.json = {"error", "message"}
              /\ ~served'.calledModel
              /\ remote' = remote
        /\ ( /\ served'.route = "projects"
             /\ ops' = ops + 1
             /\ ~HasId(served'.body) )
           => /\ served'.status \notin 200..299
              /\ ~served'.wroteUser
              /\ remote' = remote ]_vars

\* a project without its id was posted to a collection that holds documents: a
\* 400 was sent and the collection is one of the prior ones
C24_Witness ==
    /\ served.route = "projects"
    /\ "id" \notin DOMAIN served.body
    /\ "name" \in DOMAIN served.body
    /\ served.status = 400
    /\ ~served.wroteUser
    /\ ops = 1
    /\ remote = SeededRemote

-----------------------------------------------------------------------------
(* Properties of the inclusion flag, under SpecStore *)

\* the step runs toggleIdea's updater on the idea ideaId of the category itemId
\* of the framework key of the project id
ToggleStepOn(id, key, itemId, ideaId) ==
    /\ UpdateStep
    /\ lastOp'.id = id
    /\ lastOp'.u.kind = "toggleIdea"
    /\ lastOp'.u.sectionKey = key
    /\ lastOp'.u.itemId = itemId
    /\ lastOp'.u.ideaId = ideaId

\* the ideas of the category itemId in a list of categories, none if it is absent
IdeasOfItem(items, itemId) ==
    IF FindIndex(items, itemId) = -1 THEN <<>> ELSE items[FindIndex(items, itemId) + 1].ideas

\* C25: an AI-generated idea is created unselected, and the inclusion flag of an
\* idea that exists before and after a step differs only if the step is the
\* toggle of that very idea: adding an idea, deleting another one, reordering,
\* editing a justification or the description, the document operations and the
\* merge of suggestions leave every existing flag as it was.
C25_FlagChangesOnlyByToggle ==
    [][\A id \in ProjectIds(projects) \cap ProjectIds(projects') :
          LET p == ProjectOf(projects, id)
              q == ProjectOf(projects', id)
          IN  \/ p.frameworks = q.frameworks
              \/ \A key \in DOMAIN q.frameworks :
                    \/ key \in DOMAIN p.frameworks /\ p.frameworks[key] = q.frameworks[key]
                    \/ \A k \in 1..Len(q.frameworks[key]) :
                          LET itemId == q.frameworks[key][k].id
                              new == q.frameworks[key][k].ideas
                              old == IF key \in DOMAIN p.frameworks
                                     THEN IdeasOfItem(p.frameworks[key], itemId) ELSE <<>>
                          IN  \A j \in 1..Len(new) :
                                /\ ( /\ new[j].isAiGenerated
                                     /\ \A i \in 1..Len(old) : old[i].id # new[j].id )
                                   => ~new[j].isSelected
                                /\ \A i \in 1..Len(old) :
                                      ( /\ old[i].id = new[j].id
                                        /\ old[i].isSelected # new[j].isSelected )
                                      => ToggleStepOn(id, key, itemId, new[j].id)]_vars

\* after a merge into a category that holds a selected idea and an unselected
\* one, both as before, that category's first idea has been toggled off
C25_Witness ==
    /\ lastOp.kind = "update"
    /\ lastOp.u.kind = "toggleIdea"
    /\ lastOp.id \in ProjectIds(projects)
    /\ LET ideas == IdeasIn(projects, lastOp.id, lastOp.u.sectionKey, lastOp.u.itemId)
       IN  /\ Len(ideas) > 3
           /\ ideas[1].id = lastOp.u.ideaId
           /\ ~ideas[1].isSelected
           /\ ideas[3].isSelected
           /\ ideas[Len(ideas)].isAiGenerated
           /\ ~ideas[Len(ideas)].isSelected

-----------------------------------------------------------------------------
(* Properties of the delete against the debounced save, under SpecRemote *)

\* C26: a deleted project is not re-created remotely: once the last operation
\* is the delete of a project, no timer is pending, no request is in flight and
\* none has failed, the remote store holds no document of that project, also
\* when the project was edited less than a debounce window before the delete.
C26_DeletedStaysDeleted ==
    ( /\ lastOp.kind = "delete"
      /\ timers = {}
      /\ inflight = {}
      /\ ~failed )
        => lastOp.id \notin DOMAIN remote

-----------------------------------------------------------------------------
(* Properties of the reorder, under SpecReorder *)

\* the number of places of the list s that hold x
Count(s, x) == Cardinality({i \in 1..Len(s) : s[i] = x})

-----------------------------------------------------------------------------
(* Properties of the order values, under SpecStore *)

\* C28: in every category of every project the order values of the ideas
\* increase along the idea list, and so are pairwise distinct, whatever ideas
\* were added, merged, deleted and moved.
C28_OrderFollowsList ==
    \A id \in ProjectIds(projects) :
        LET p == ProjectOf(projects, id)
        IN  \A key \in DOMAIN p.frameworks :
                \A k \in 1..Len(p.frameworks[key]) :
                    LET ideas == p.frameworks[key][k].ideas
                    IN  \A i \in 1..Len(ideas) :
                            \A j \in (i + 1)..Len(ideas) : ideas[i].order < ideas[j].order

-----------------------------------------------------------------------------
(* Properties of the suggestion requests against navigation, under SpecSwitch *)

\* the step settles the request g by running the merge
MergeOf(g) ==
    /\ g \in pendingAi
    /\ g \notin pendingAi'
    /\ UpdateStep
    /\ lastOp'.u.kind = "merge"

\* C29: suggestions are merged into the project and category they were
\* requested for, whichever project is active when the response arrives: the
\* merge of a request changes no project but the requesting one, in it no
\* category but the requested one, whose ideas it extends by the suggestions;
\* if the requesting project is no longer in the store, no project changes.
C29_MergedWhereRequested ==
    [][\A g \in pendingAi :
          MergeOf(g) =>
            /\ ProjectIds(projects') = ProjectIds(projects)
            /\ \A id \in ProjectIds(projects) :
                  id # g.aid => ProjectOf(projects', id) = ProjectOf(projects, id)
            /\ g.aid \in ProjectIds(projects) =>
                  LET p == ProjectOf(projects, g.aid)
                      q == ProjectOf(projects', g.aid)
                      old == IdeasIn(projects, g.aid, g.frameworkKey, g.itemId)
                      new == IdeasIn(projects', g.aid, g.frameworkKey, g.itemId)
                  IN  /\ Len(new) = Len(old) + Len(lastOp'.u.suggestions)
                      /\ SubSeq(new, 1, Len(old)) = old
                      /\ \A j \in (Len(old) + 1)..Len(new) : new[j].isAiGenerated
                      /\ \A key \in DOMAIN q.frameworks :
                            \A k \in 1..Len(q.frameworks[key]) :
                                (key # g.frameworkKey \/ q.frameworks[key][k].id # g.itemId)
                                    => q.frameworks[key][k] = p.frameworks[key][k]]_vars

\* three suggestions requested for project A have been merged into A while
\* project B was the active one, and B has no idea
C29_Witness ==
    /\ lastOp.kind = "update"
    /\ lastOp.u.kind = "merge"
    /\ Len(lastOp.u.suggestions) = 3
    /\ lastOp.id \in ProjectIds(projects)
    /\ lastOp.active \in ProjectIds(projects)
    /\ lastOp.active # lastOp.id
    /\ activeProjectId = lastOp.active
    /\ Len(IdeasIn(projects, lastOp.id, lastOp.u.sectionKey, lastOp.u.itemId)) = 6
    /\ Len(IdeasIn(projects, activeProjectId, lastOp.u.sectionKey, lastOp.u.itemId)) = 0

====
